---- MODULE Spec2Model ----
(***************************************************************************)
(* Model of the carb-cycling planner core: utils/calc.ts (round2,          *)
(* normalizePlacement, validateProfile, calculateCycle) and                *)
(* utils/solver.ts (getVariant, computeTotals, score, greedyGenerate).     *)
(*                                                                         *)
(* Numbers.  The code computes in IEEE doubles.  The model computes in     *)
(* fixed point: a real x is the integer x * Scale ("ticks"), every         *)
(* product and quotient is truncated toward minus infinity to a tick.      *)
(* Day counts, cycleDays and indices are plain integers.                   *)
(***************************************************************************)
EXTENDS Integers, Sequences, FiniteSets, TLC

VARIABLES
    pc,          \* position of the modelled call: "init", then per component
    profile,     \* PlannerProfile handed to calc.ts
    normalized,  \* value returned by normalizePlacement(profile)
    errors,      \* value returned by validateProfile(profile)
    cycle,       \* value returned by calculateCycle(profile)
    selected,    \* DayFoodEntry[] handed to solver.ts
    foodsMap,    \* Map<string, FoodItem> handed to solver.ts
    target,      \* {p, c, f} handed to greedyGenerate
    entries,     \* greedyGenerate's working copy / returned list
    iter,        \* greedyGenerate's Phase 2 loop counter i
    totals,      \* value returned by computeTotals(selected, foodsMap)
    value,       \* number handed to round2
    rounded,     \* value returned by round2(value)
    selectedDay, \* App state: the day the Foods tab shows (1-based)
    dayPlans,    \* App state: Record<number, DayFoodEntry[]>
    generations, \* number of greedyGenerate calls handleAutoGenerate made
    idb,         \* object store 'kv' of database 'carbcycler_db': key -> value
    ls,          \* localStorage: key -> string
    written,     \* per key, the value of the last completed idbSet
    got          \* the last completed idbGet: its key, result and what the
                 \* completed idbSet calls before it promise

vars == <<pc, profile, normalized, errors, cycle, selected, foodsMap, target,
          entries, iter, totals, value, rounded, selectedDay, dayPlans,
          generations, idb, ls, written, got>>

\* App's own state
hostVars == <<selectedDay, dayPlans, generations>>

\* the variables outside calc.ts's and solver.ts's exported functions
rest == <<value, rounded, selectedDay, dayPlans, generations, idb, ls,
         written, got>>

\* the browser's two stores and the record of the calls of storage.ts
storeVars == <<idb, ls, written, got>>

-----------------------------------------------------------------------------
(* Bounds of the model *)

MaxDays == 5
MaxCount == 2
MaxLen == 5

-----------------------------------------------------------------------------
(* Fixed-point arithmetic *)

\* Resolution of quantities, densities, targets and rates: 1/Scale.
\* Resolution of the share fractions: 1/ShareScale (the 1e-6 tolerance
\* of validateProfile is 100 of these ticks).
Scale == 100 * 100
ShareScale == 10000 * 10000

Max(a, b) == IF a >= b THEN a ELSE b
Abs(a) == IF a < 0 THEN 0 - a ELSE a

\* floor(a * b / (base * base)), computed without leaving 32 bits
MulBy(a, b, base) ==
    LET a1 == a \div base
        a0 == a % base
        b1 == b \div base
        b0 == b % base
    IN  a1 * b1 + ((a1 * b0 + a0 * b1 + ((a0 * b0) \div base)) \div base)

\* x * y for two values in ticks of 1/Scale
Mul(a, b) == MulBy(a, b, 100)

\* x * share for x in ticks of 1/Scale and a share in ticks of 1/ShareScale
MulShare(a, s) == MulBy(a, s, 10000)

RECURSIVE LongDiv(_, _, _, _)
LongDiv(q, r, b, k) ==
    IF k = 0 THEN q
    ELSE LongDiv(q * 10 + ((r * 10) \div b), (r * 10) % b, b, k - 1)

\* floor(a * Scale / b) for tick values a and b > 0: four decimal digits
\* of long division
Div(a, b) == LongDiv(a \div b, a % b, b, 4)

\* rounding to 2 decimals with ties away from zero
round2HalfAway(n) ==
    LET a == IF n < 0 THEN 0 - n ELSE n
        q == (a + (Scale \div 200)) \div (Scale \div 100)
    IN  (IF n < 0 THEN 0 - q ELSE q) * (Scale \div 100)

\* Math.round(n * 100) / 100: Math.round is floor(x + 0.5), so a tie goes
\* toward plus infinity.
round2(n) ==
    LET q == n \div (Scale \div 100)
        r == n % (Scale \div 100)
    IN  (IF 2 * r >= Scale \div 100 THEN q + 1 ELSE q) * (Scale \div 100)

-----------------------------------------------------------------------------
(* calc.ts *)

DayType == {"High", "Medium", "Low"}

DEFAULT_CARB_SHARES == [High |-> 50000000, Medium |-> 35000000, Low |-> 15000000]
DEFAULT_FAT_SHARES == [High |-> 15000000, Medium |-> 35000000, Low |-> 50000000]

defaultProfile ==
    [sex |-> "Female", weightKg |-> 70 * Scale, bodyType |-> "endo",
     proteinPerKg |-> 12000, ectoFatPerKg |-> 1 * Scale,
     cycleDays |-> 5, nHigh |-> 2, nMed |-> 2, nLow |-> 1,
     carbShares |-> DEFAULT_CARB_SHARES, fatShares |-> DEFAULT_FAT_SHARES,
     dayPlacement |-> <<"High", "High", "Medium", "Medium", "Low">>]

\* arr.filter((d) => d === k).length
count(arr, k) == Cardinality({i \in 1..Len(arr) : arr[i] = k})

counts(arr) == [k \in DayType |-> count(arr, k)]

required(p) == [High |-> p.nHigh, Medium |-> p.nMed, Low |-> p.nLow]

\* [...dayPlacement].slice(0, cycleDays), then push('Low') up to cycleDays
padded(p) ==
    [i \in 1..Max(0, p.cycleDays) |->
        IF i <= Len(p.dayPlacement) THEN p.dayPlacement[i] ELSE "Low"]

\* (['High','Medium','Low']).find((k) => lacks[k] > 0); "" when none
firstLack(lacks) ==
    IF lacks["High"] > 0 THEN "High"
    ELSE IF lacks["Medium"] > 0 THEN "Medium"
    ELSE IF lacks["Low"] > 0 THEN "Low"
    ELSE ""

\* scan with the loop bound off by one (i > 0): index 0 is never repaired
RECURSIVE scanSkipFirst(_, _, _, _)
scanSkipFirst(out, extras, lacks, i) ==
    IF i <= 1 THEN out
    ELSE LET d == out[i]
             t == firstLack(lacks)
         IN  IF extras[d] <= 0 \/ t = ""
             THEN scanSkipFirst(out, extras, lacks, i - 1)
             ELSE scanSkipFirst([out EXCEPT ![i] = t],
                                [extras EXCEPT ![d] = @ - 1],
                                [lacks EXCEPT ![t] = @ - 1],
                                i - 1)

\* scan without the test extras[d] <= 0: any position feeds a lacking type
RECURSIVE scanIgnoreExtras(_, _, _, _)
scanIgnoreExtras(out, extras, lacks, i) ==
    IF i = 0 THEN out
    ELSE LET d == out[i]
             t == firstLack(lacks)
         IN  IF t = ""
             THEN scanIgnoreExtras(out, extras, lacks, i - 1)
             ELSE scanIgnoreExtras([out EXCEPT ![i] = t],
                                   [extras EXCEPT ![d] = @ - 1],
                                   [lacks EXCEPT ![t] = @ - 1],
                                   i - 1)

\* scan from the head: with i positions left, position Len(out) - i + 1
RECURSIVE scanFromHead(_, _, _, _)
scanFromHead(out, extras, lacks, i) ==
    IF i = 0 THEN out
    ELSE LET at == Len(out) - i + 1
             d == out[at]
             t == firstLack(lacks)
         IN  IF extras[d] <= 0 \/ t = ""
             THEN scanFromHead(out, extras, lacks, i - 1)
             ELSE scanFromHead([out EXCEPT ![at] = t],
                               [extras EXCEPT ![d] = @ - 1],
                               [lacks EXCEPT ![t] = @ - 1],
                               i - 1)

\* the loop for (i = out.length - 1; i >= 0; i -= 1), i here 1-based
RECURSIVE scan(_, _, _, _)
scan(out, extras, lacks, i) ==
    IF i = 0 THEN out
    ELSE LET d == out[i]
             t == firstLack(lacks)
         IN  IF extras[d] <= 0 \/ t = ""
             THEN scan(out, extras, lacks, i - 1)
             ELSE scan([out EXCEPT ![i] = t],
                       [extras EXCEPT ![d] = @ - 1],
                       [lacks EXCEPT ![t] = @ - 1],
                       i - 1)

normalizePlacement(p) ==
    LET out == padded(p)
        current == counts(out)
        req == required(p)
        extras == [k \in DayType |-> Max(0, current[k] - req[k])]
        lacks == [k \in DayType |-> Max(0, req[k] - current[k])]
    IN  scan(out, extras, lacks, Len(out))

\* 1e-6, the tolerance on a share sum
shareTolerance == ShareScale \div 1000000

shareSum(shares) == shares.High + shares.Medium + shares.Low

countsError == "Day counts must sum to cycle days."
carbError == "Carb shares must sum to 1.0."
fatError == "Fat shares must sum to 1.0."
placementError == "Day placement must keep fixed counts for High/Medium/Low."

\* validateProfile returning at the first failing check
validateFirstFailure(p) ==
    IF p.nHigh + p.nMed + p.nLow # p.cycleDays THEN <<countsError>>
    ELSE IF Abs(shareSum(p.carbShares) - ShareScale) > shareTolerance
    THEN <<carbError>>
    ELSE IF Abs(shareSum(p.fatShares) - ShareScale) > shareTolerance
    THEN <<fatError>>
    ELSE IF counts(p.dayPlacement) # required(p) THEN <<placementError>>
    ELSE <<>>

\* validateProfile without the check of the counts against cycleDays
validateWithoutCountsSum(p) ==
    LET pCounts == counts(p.dayPlacement)
    IN  (IF Abs(shareSum(p.carbShares) - ShareScale) > shareTolerance
         THEN <<carbError>> ELSE <<>>)
        \o (IF Abs(shareSum(p.fatShares) - ShareScale) > shareTolerance
            THEN <<fatError>> ELSE <<>>)
        \o (IF \/ pCounts["High"] # p.nHigh
               \/ pCounts["Medium"] # p.nMed
               \/ pCounts["Low"] # p.nLow
            THEN <<placementError>> ELSE <<>>)

validateProfile(p) ==
    LET pCounts == counts(p.dayPlacement)
    IN  (IF p.nHigh + p.nMed + p.nLow # p.cycleDays
         THEN <<countsError>> ELSE <<>>)
        \o (IF Abs(shareSum(p.carbShares) - ShareScale) > shareTolerance
            THEN <<carbError>> ELSE <<>>)
        \o (IF Abs(shareSum(p.fatShares) - ShareScale) > shareTolerance
            THEN <<fatError>> ELSE <<>>)
        \o (IF \/ pCounts["High"] # p.nHigh
               \/ pCounts["Medium"] # p.nMed
               \/ pCounts["Low"] # p.nLow
            THEN <<placementError>> ELSE <<>>)

\* profile.bodyType === 'endo' ? 2.0 : 3.0
carbPerKg(p) == IF p.bodyType = "endo" THEN 2 * Scale ELSE 3 * Scale

\* fatPerKg read from the profile whatever the body type
fatPerKgFromProfile(p) == p.ectoFatPerKg

\* profile.bodyType === 'endo' ? 0.8 : profile.ectoFatPerKg
fatPerKg(p) == IF p.bodyType = "endo" THEN (8 * Scale) \div 10 ELSE p.ectoFatPerKg

\* perType without the zero-count guard: a zero count divides as one
perTypeZeroAsOne(total, shares, p) ==
    LET n == required(p)
    IN  [k \in DayType |-> MulShare(total, shares[k]) \div Max(1, n[k])]

\* perType that forgets to divide by the count
perTypeUndivided(total, shares, p) ==
    LET n == required(p)
    IN  [k \in DayType |->
            IF n[k] > 0 THEN MulShare(total, shares[k]) ELSE 0]

\* (total * shares[k]) / n when n > 0, else 0
perType(total, shares, p) ==
    LET n == required(p)
    IN  [k \in DayType |->
            IF n[k] > 0 THEN MulShare(total, shares[k]) \div n[k] ELSE 0]

\* calculateCycle numbering the days with the array index idx, from 0
calculateCycleFromZero(p) ==
    LET pDay == Mul(p.weightKg, p.proteinPerKg)
        cTotal == Mul(p.weightKg, carbPerKg(p)) * p.cycleDays
        fTotal == Mul(p.weightKg, fatPerKg(p)) * p.cycleDays
        perTypeC == perType(cTotal, p.carbShares, p)
        perTypeF == perType(fTotal, p.fatShares, p)
    IN  [dayTargets |->
            [idx \in 1..Len(p.dayPlacement) |->
                [day |-> idx - 1,
                 dayType |-> p.dayPlacement[idx],
                 proteinTarget |-> round2(pDay),
                 carbTarget |-> round2(perTypeC[p.dayPlacement[idx]]),
                 fatTarget |-> round2(perTypeF[p.dayPlacement[idx]])]],
         pDay |-> round2(pDay),
         cTotal |-> round2(cTotal),
         fTotal |-> round2(fTotal)]

calculateCycle(p) ==
    LET pDay == Mul(p.weightKg, p.proteinPerKg)
        cTotal == Mul(p.weightKg, carbPerKg(p)) * p.cycleDays
        fTotal == Mul(p.weightKg, fatPerKg(p)) * p.cycleDays
        perTypeC == perType(cTotal, p.carbShares, p)
        perTypeF == perType(fTotal, p.fatShares, p)
    IN  [dayTargets |->
            [idx \in 1..Len(p.dayPlacement) |->
                [day |-> idx,
                 dayType |-> p.dayPlacement[idx],
                 proteinTarget |-> round2(pDay),
                 carbTarget |-> round2(perTypeC[p.dayPlacement[idx]]),
                 fatTarget |-> round2(perTypeF[p.dayPlacement[idx]])]],
         pDay |-> round2(pDay),
         cTotal |-> round2(cTotal),
         fTotal |-> round2(fTotal)]

-----------------------------------------------------------------------------
(* solver.ts *)

\* A FoodItem is [category, variants]; a variant is [basis, p, c, f, kcal,
\* hasKcal] (kcal is optional in the source: hasKcal = FALSE is "missing").
\* A DayFoodEntry is [foodId, basis, grams, nan]; nan = TRUE stands for a
\* grams that is not a number (NaN, undefined), grams is then ignored.
\* foodsMap is a function from the ids it holds to FoodItems.

\* foodsMap.get(id) !== undefined
has(fm, id) == id \in DOMAIN fm

\* getVariant falling back to the last variant instead of the first
getVariantFallbackLast(food, basis) ==
    LET hits == {i \in 1..Len(food.variants) : food.variants[i].basis = basis}
    IN  IF hits = {} THEN food.variants[Len(food.variants)]
        ELSE food.variants[CHOOSE i \in hits : \A j \in hits : i <= j]

\* food.variants.find((v) => v.basis === basis) ?? food.variants[0]
getVariant(food, basis) ==
    LET hits == {i \in 1..Len(food.variants) : food.variants[i].basis = basis}
    IN  IF hits = {} THEN food.variants[1]
        ELSE food.variants[CHOOSE i \in hits : \A j \in hits : i <= j]

\* v.kcal ?? -1: a sentinel for the missing value leaks into the sum
kcalOrSentinel(v) == IF v.hasKcal THEN v.kcal ELSE 0 - Scale

\* v.kcal ?? 0
kcalOrZero(v) == IF v.hasKcal THEN v.kcal ELSE 0

\* v[macro] for macro in p, c, f; kcal through ?? 0
density(v, macro) == IF macro = "kcal" THEN kcalOrZero(v) ELSE v[macro]

\* the loop body with the quantity as it comes: density * (e.grams / 100)
contributionUnclamped(e, fm, macro) ==
    IF ~has(fm, e.foodId) THEN 0
    ELSE IF e.grams >= 0
         THEN MulBy(density(getVariant(fm[e.foodId], e.basis), macro),
                    e.grams, 1000)
         ELSE 0 - MulBy(density(getVariant(fm[e.foodId], e.basis), macro),
                        0 - e.grams, 1000)

\* the loop body of computeTotals for one entry and one accumulator:
\* 0 for an unresolved food, else density * (Math.max(0, e.grams) / 100)
contribution(e, fm, macro) ==
    IF ~has(fm, e.foodId) THEN 0
    ELSE MulBy(density(getVariant(fm[e.foodId], e.basis), macro),
               Max(0, e.grams), 1000)

\* the accumulation loop ended by break, not continue, at an unresolved food
RECURSIVE sumUntilUnresolved(_, _, _, _)
sumUntilUnresolved(es, fm, macro, i) ==
    IF i > Len(es) \/ ~has(fm, es[i].foodId) THEN 0
    ELSE contribution(es[i], fm, macro) + sumUntilUnresolved(es, fm, macro, i + 1)

\* for (const e of entries) { ... acc += ... }, from entry i on
RECURSIVE sumFrom(_, _, _, _)
sumFrom(es, fm, macro, i) ==
    IF i > Len(es) THEN 0
    ELSE contribution(es[i], fm, macro) + sumFrom(es, fm, macro, i + 1)

\* for (const e of entries) { ... acc += round2(...) }: rounding per entry
RECURSIVE sumRoundedFrom(_, _, _, _)
sumRoundedFrom(es, fm, macro, i) ==
    IF i > Len(es) THEN 0
    ELSE round2(contribution(es[i], fm, macro))
         + sumRoundedFrom(es, fm, macro, i + 1)

\* computeTotals returning the sums of the per-entry rounded contributions
computeTotalsPerEntry(es, fm) ==
    [kcal |-> sumRoundedFrom(es, fm, "kcal", 1),
     p |-> sumRoundedFrom(es, fm, "p", 1),
     c |-> sumRoundedFrom(es, fm, "c", 1),
     f |-> sumRoundedFrom(es, fm, "f", 1)]

computeTotals(es, fm) ==
    [kcal |-> round2(sumFrom(es, fm, "kcal", 1)),
     p |-> round2(sumFrom(es, fm, "p", 1)),
     c |-> round2(sumFrom(es, fm, "c", 1)),
     f |-> round2(sumFrom(es, fm, "f", 1))]

score(tg, tot) == Abs(tg.p - tot.p) + Abs(tg.c - tot.c) + Abs(tg.f - tot.f)

\* (e) => e.grams || 0, without Math.max(0, .)
unclampedGrams(e) == IF e.nan THEN 0 ELSE e.grams

\* Math.max(0, e.grams || 0)
clampedGrams(e) == IF e.nan THEN 0 ELSE Max(0, e.grams)

\* selected.map((e) => ({ ...e, grams: Math.max(0, e.grams || 0) }))
clampEntries(sel) ==
    [i \in 1..Len(sel) |-> [sel[i] EXCEPT !.grams = clampedGrams(sel[i]),
                                         !.nan = FALSE]]

\* entries.filter((e) => foodsMap.get(e.foodId)?.category === cat), as the
\* set of positions; the filtered arrays share their objects with entries
group(es, fm, cat) ==
    {i \in 1..Len(es) : has(fm, es[i].foodId) /\ fm[es[i].foodId].category = cat}

densityAt(es, fm, macro, i) == getVariant(fm[es[i].foodId], es[i].basis)[macro]

\* the filtered positions left in entry order: no sort by density
RECURSIVE sortedByPosition(_, _, _, _)
sortedByPosition(es, fm, macro, S) ==
    IF S = {} THEN <<>>
    ELSE LET first == CHOOSE i \in S : \A j \in S : i <= j
         IN  <<first>> \o sortedByPosition(es, fm, macro, S \ {first})

\* .filter((x) => x.density > 0).sort((a, b) => b.density - a.density):
\* the positions of S by density descending, equal densities in entry
\* order (Array.prototype.sort is stable)
RECURSIVE sorted(_, _, _, _)
sorted(es, fm, macro, S) ==
    IF S = {} THEN <<>>
    ELSE LET first == CHOOSE i \in S : \A j \in S :
                          \/ densityAt(es, fm, macro, i) > densityAt(es, fm, macro, j)
                          \/ /\ densityAt(es, fm, macro, i) = densityAt(es, fm, macro, j)
                             /\ i <= j
         IN  <<first>> \o sorted(es, fm, macro, S \ {first})

\* for (const item of sorted) { if (remaining <= 0) break; ... }
RECURSIVE fill(_, _, _, _, _, _)
fill(es, fm, macro, order, k, remaining) ==
    IF k > Len(order) \/ remaining <= 0 THEN es
    ELSE LET i == order[k]
             d == densityAt(es, fm, macro, i)
             grams == Max(0, Div(remaining * 100, d))
         IN  fill([es EXCEPT ![i].grams = @ + grams], fm, macro, order, k + 1,
                  remaining - MulBy(d, grams, 1000))

\* const assign = (group, macro, needed) => { ... }
assign(es, fm, cat, macro, needed) ==
    LET g == group(es, fm, cat)
    IN  IF g = {} \/ needed <= 0 THEN es
        ELSE fill(es, fm, macro,
                  sorted(es, fm, macro,
                         {i \in g : densityAt(es, fm, macro, i) > 0}),
                  1, needed)

\* the fraction of the target Phase 1 seeds
seedShare == 7000

\* assign(proteins, 'p', target.p * 0.7); assign(carbs, 'c', ...);
\* assign(fats, 'f', ...)
phase1(es, fm, tg) ==
    LET a == assign(es, fm, "protein", "p", Mul(tg.p, seedShare))
        b == assign(a, fm, "carb", "c", Mul(tg.c, seedShare))
    IN  assign(b, fm, "fat", "f", Mul(tg.f, seedShare))

step == 5
maxIterations == 1500

\* the score after entries[idx].grams += delta (restored afterwards)
trial(es, fm, tg, idx, delta) ==
    score(tg, computeTotals([es EXCEPT ![idx].grams = @ + delta], fm))

\* the double loop replacing the best move by any later one as good
RECURSIVE bestMoveLastWins(_, _, _, _, _)
bestMoveLastWins(es, fm, tg, k, best) ==
    IF k > 2 * Len(es) THEN best
    ELSE LET idx == (k + 1) \div 2
             delta == IF k % 2 = 1 THEN step * Scale ELSE 0 - step * Scale
         IN  IF es[idx].grams + delta < 0
             THEN bestMoveLastWins(es, fm, tg, k + 1, best)
             ELSE LET s == trial(es, fm, tg, idx, delta)
                  IN  IF s < best.score \/ (s = best.score /\ best.idx # 0)
                      THEN bestMoveLastWins(es, fm, tg, k + 1,
                                    [score |-> s, idx |-> idx, delta |-> delta])
                      ELSE bestMoveLastWins(es, fm, tg, k + 1, best)

\* the double loop keeping the lowest trial even when it does not improve
\* on the current score
RECURSIVE bestMoveNotImproving(_, _, _, _, _)
bestMoveNotImproving(es, fm, tg, k, best) ==
    IF k > 2 * Len(es) THEN best
    ELSE LET idx == (k + 1) \div 2
             delta == IF k % 2 = 1 THEN step * Scale ELSE 0 - step * Scale
         IN  IF es[idx].grams + delta < 0
             THEN bestMoveNotImproving(es, fm, tg, k + 1, best)
             ELSE LET s == trial(es, fm, tg, idx, delta)
                  IN  IF s < best.score \/ best.idx = 0
                      THEN bestMoveNotImproving(es, fm, tg, k + 1,
                                    [score |-> s, idx |-> idx, delta |-> delta])
                      ELSE bestMoveNotImproving(es, fm, tg, k + 1, best)

\* the double loop taking a trial that ties with the best so far: s <=
\* bestScore for s < bestScore - 1e-9
RECURSIVE bestMoveOrEqual(_, _, _, _, _)
bestMoveOrEqual(es, fm, tg, k, best) ==
    IF k > 2 * Len(es) THEN best
    ELSE LET idx == (k + 1) \div 2
             delta == IF k % 2 = 1 THEN step * Scale ELSE 0 - step * Scale
         IN  IF es[idx].grams + delta < 0
             THEN bestMoveOrEqual(es, fm, tg, k + 1, best)
             ELSE LET s == trial(es, fm, tg, idx, delta)
                  IN  IF s <= best.score
                      THEN bestMoveOrEqual(es, fm, tg, k + 1,
                                    [score |-> s, idx |-> idx, delta |-> delta])
                      ELSE bestMoveOrEqual(es, fm, tg, k + 1, best)

\* The double loop over idx and delta in [step, -step], from move number k
\* on (move 2*idx-1 is +step on entry idx, move 2*idx is -step), carrying
\* [score, idx, delta] of the best move so far.  Scores are multiples of
\* 0.01, so s < bestScore - 1e-9 is s < bestScore.
RECURSIVE bestMove(_, _, _, _, _)
bestMove(es, fm, tg, k, best) ==
    IF k > 2 * Len(es) THEN best
    ELSE LET idx == (k + 1) \div 2
             delta == IF k % 2 = 1 THEN step * Scale ELSE 0 - step * Scale
         IN  IF es[idx].grams + delta < 0
             THEN bestMove(es, fm, tg, k + 1, best)
             ELSE LET s == trial(es, fm, tg, idx, delta)
                  IN  IF s < best.score
                      THEN bestMove(es, fm, tg, k + 1,
                                    [score |-> s, idx |-> idx, delta |-> delta])
                      ELSE bestMove(es, fm, tg, k + 1, best)

baseScore(es, fm, tg) == score(tg, computeTotals(es, fm))

\* a search that never finds an improving move
searchNothing(es, fm, tg) ==
    [score |-> baseScore(es, fm, tg), idx |-> 0, delta |-> 0]

\* bestScore, bestIdx (0 for -1), bestDelta after the double loop
searchMove(es, fm, tg) ==
    bestMove(es, fm, tg, 1,
             [score |-> baseScore(es, fm, tg), idx |-> 0, delta |-> 0])

\* roundEntries that also drops the entries left without a quantity
roundPositiveEntries(es) ==
    LET positive(e) == e.grams > 0
        kept == SelectSeq(es, positive)
    IN  [i \in 1..Len(kept) |-> [kept[i] EXCEPT !.grams = round2(kept[i].grams)]]

\* roundEntries with Math.floor for Math.round
floorEntries(es) ==
    [i \in 1..Len(es) |->
        [es[i] EXCEPT !.grams = (es[i].grams \div (Scale \div 100)) * (Scale \div 100)]]

\* entries.map((e) => ({ ...e, grams: round2(e.grams) }))
roundEntries(es) ==
    [i \in 1..Len(es) |-> [es[i] EXCEPT !.grams = round2(es[i].grams)]]

-----------------------------------------------------------------------------
(* Inputs *)

RECURSIVE SeqsOfLen(_, _)
SeqsOfLen(S, n) ==
    IF n = 0 THEN {<<>>}
    ELSE {Append(s, x) : s \in SeqsOfLen(S, n - 1), x \in S}

SeqsUpTo(S, n) == UNION {SeqsOfLen(S, k) : k \in 0..n}

NoTotals == [kcal |-> 0, p |-> 0, c |-> 0, f |-> 0]
NoCycle == [dayTargets |-> <<>>, pDay |-> 0, cTotal |-> 0, fTotal |-> 0]
NoTarget == [p |-> 0, c |-> 0, f |-> 0]

\* a catalog that holds nothing
NoFoods == [id \in {} |-> 0]

\* the solver's variables while a specification of calc.ts runs
IdleSolver ==
    /\ selected = <<>>
    /\ foodsMap = NoFoods
    /\ target = NoTarget
    /\ entries = <<>>
    /\ iter = 0
    /\ totals = NoTotals

\* round2's own variables while it is not under study
IdleRound ==
    /\ value = 0
    /\ rounded = 0

\* const [dayPlans, setDayPlans] = useState({}); useState(1)
NoPlans == [d \in {} |-> <<>>]
IdleHost ==
    /\ selectedDay = 1
    /\ dayPlans = NoPlans
    /\ generations = 0

\* an empty store: no key holds anything
NoRecord == [k \in {} |-> ""]

\* nothing stored, nothing written, nothing read
IdleStore ==
    /\ idb = NoRecord
    /\ ls = NoRecord
    /\ written = NoRecord
    /\ got = <<>>

IdleRest == IdleRound /\ IdleHost /\ IdleStore

\* the variables of calc.ts while a specification of solver.ts runs
IdleCalc ==
    /\ profile = defaultProfile
    /\ normalized = <<>>
    /\ errors = <<>>
    /\ cycle = NoCycle

-----------------------------------------------------------------------------
(* Specification of normalizePlacement: any counts, any placement *)

InitNormalize ==
    /\ pc = "init"
    /\ \E d \in 0..MaxDays, h \in 0..MaxCount, m \in 0..MaxCount,
          l \in 0..MaxCount, pl \in SeqsUpTo(DayType, MaxLen) :
          profile = [defaultProfile EXCEPT !.cycleDays = d, !.nHigh = h,
                        !.nMed = m, !.nLow = l, !.dayPlacement = pl]
    /\ normalized = <<>>
    /\ errors = <<>>
    /\ cycle = NoCycle
    /\ IdleSolver
    /\ IdleRest

\* const out = normalizePlacement(profile)
Normalize ==
    /\ pc = "init"
    /\ normalized' = normalizePlacement(profile)
    /\ pc' = "normalized"
    /\ UNCHANGED rest
    /\ UNCHANGED <<profile, errors, cycle, selected, foodsMap, target,
                   entries, iter, totals>>

\* { ...savedProfile, dayPlacement: normalizePlacement(savedProfile) }
Adopt ==
    /\ pc = "normalized"
    /\ profile' = [profile EXCEPT !.dayPlacement = normalized]
    /\ pc' = "adopted"
    /\ UNCHANGED rest
    /\ UNCHANGED <<normalized, errors, cycle, selected, foodsMap, target,
                   entries, iter, totals>>

\* normalizePlacement of the adopted profile
Renormalize ==
    /\ pc = "adopted"
    /\ normalized' = normalizePlacement(profile)
    /\ pc' = "renormalized"
    /\ UNCHANGED rest
    /\ UNCHANGED <<profile, errors, cycle, selected, foodsMap, target,
                   entries, iter, totals>>

NextNormalize == Normalize \/ Adopt \/ Renormalize

SpecNormalize == InitNormalize /\ [][NextNormalize]_vars

CountsSumToCycle(p) == p.nHigh + p.nMed + p.nLow = p.cycleDays

\* C1: when nHigh + nMed + nLow = cycleDays, whatever the placement handed
\* in, the sequence normalizePlacement returns has exactly cycleDays
\* elements, nHigh of them High, nMed Medium and nLow Low.
C1_NormalizedCounts ==
    (pc = "normalized" /\ CountsSumToCycle(profile)) =>
        /\ Len(normalized) = profile.cycleDays
        /\ counts(normalized) = required(profile)
        /\ \A i \in 1..Len(normalized) : normalized[i] \in DayType

\* a placement of the wrong length and the wrong counts has been normalized
C1_Witness ==
    /\ pc = "normalized"
    /\ CountsSumToCycle(profile)
    /\ profile.cycleDays >= 3
    /\ Len(profile.dayPlacement) # profile.cycleDays
    /\ counts(padded(profile)) # required(profile)
    /\ normalized # padded(profile)

\* C2: normalizePlacement is idempotent. Normalizing the profile that
\* adopted a normalized placement returns that placement, position by
\* position (any counts, summing to cycleDays or not); and a placement of
\* length cycleDays whose counts equal the required counts is returned
\* unchanged.
C2_Idempotent ==
    /\ pc = "renormalized" => normalized = profile.dayPlacement
    /\ (/\ pc = "normalized"
        /\ Len(profile.dayPlacement) = profile.cycleDays
        /\ counts(profile.dayPlacement) = required(profile))
       => normalized = profile.dayPlacement

\* a second normalization ran on a profile whose counts exceed cycleDays,
\* so that deficits remain after the first one
C2_Witness ==
    /\ pc = "renormalized"
    /\ profile.nHigh + profile.nMed + profile.nLow > profile.cycleDays
    /\ profile.cycleDays >= 3
    /\ counts(normalized) # required(profile)

-----------------------------------------------------------------------------
(* Inputs of the solver specifications *)

MaxEntries == 2

variant(basis, p, c, f, kcal) ==
    [basis |-> basis, p |-> p * Scale, c |-> c * Scale, f |-> f * Scale,
     kcal |-> kcal * Scale, hasKcal |-> TRUE]

noKcal(v) == [v EXCEPT !.kcal = 0, !.hasKcal = FALSE]

Chicken == [category |-> "protein",
            variants |-> <<variant("raw", 20, 0, 5, 125),
                           variant("cooked", 25, 0, 6, 154)>>]
Rice == [category |-> "carb",
         variants |-> <<variant("raw", 7, 75, 1, 337),
                        noKcal(variant("cooked", 2, 25, 0, 0))>>]
Oil == [category |-> "fat", variants |-> <<variant("raw", 0, 0, 100, 900)>>]
Water == [category |-> "other", variants |-> <<noKcal(variant("raw", 0, 0, 0, 0))>>]

\* the same ids with other foods behind them: a pure protein food, and a
\* malformed custom food with a negative density
Whey == [category |-> "protein", variants |-> <<variant("raw", 20, 0, 0, 80)>>]
Odd == [category |-> "carb", variants |-> <<variant("raw", 0, 0 - 4, 0, 0)>>]

\* a protein-rich food filed under a category no macro is seeded from
Tofu == [category |-> "other", variants |-> <<variant("raw", 40, 0, 10, 250)>>]

\* a pure protein food of the same density as Whey that Phase 1 does not seed
Curd == [category |-> "dairy", variants |-> <<variant("raw", 20, 0, 0, 80)>>]

\* a food so thin in protein (0.5 per 100) that a target of 40 is 1600
\* steps away, and of a category Phase 1 does not seed
Broth == [category |-> "other",
          variants |-> <<[variant("raw", 0, 0, 0, 2) EXCEPT !.p = Scale \div 2]>>]

ThinCatalog == [id \in {"chicken"} |-> Broth]

Catalogs ==
    {[id \in {"chicken", "rice", "oil", "water"} |->
        CASE id = "chicken" -> Chicken [] id = "rice" -> Rice
          [] id = "oil" -> Oil [] OTHER -> Water],
     [id \in {"chicken", "rice"} |-> IF id = "chicken" THEN Whey ELSE Odd],
     [id \in {"chicken"} |-> Tofu],
     [id \in {"chicken"} |-> Curd]}

entry(id, basis, grams) ==
    [foodId |-> id, basis |-> basis, grams |-> grams, nan |-> FALSE]

\* entries handed to greedyGenerate: zero, overshooting, negative and
\* not-a-number quantities, a basis no variant has ("fresh"), a food
\* without densities and an id no catalog holds ("ghost")
EntryPool ==
    {entry("chicken", "raw", 0),
     entry("chicken", "cooked", 5 * Scale),
     entry("rice", "fresh", 0 - 5 * Scale),
     [entry("oil", "raw", 0) EXCEPT !.nan = TRUE],
     entry("water", "raw", 75060),
     entry("ghost", "raw", 20 * Scale)}

\* entries handed to computeTotals
NumericEntries ==
    {e \in EntryPool : ~e.nan}
    \cup {entry("rice", "cooked", 30 * Scale), entry("oil", "raw", 12340),
          entry("chicken", "raw", 0 - 1), entry("rice", "dried", 40 * Scale),
          entry("rice", "raw", 4000)}

Targets ==
    {[p |-> 0, c |-> 0, f |-> 0],
     [p |-> 40 * Scale, c |-> 0, f |-> 0],
     [p |-> 40 * Scale, c |-> 50 * Scale, f |-> 10 * Scale]}

-----------------------------------------------------------------------------
(* Specification of computeTotals *)

InitTotals ==
    /\ pc = "init"
    /\ IdleCalc
    /\ IdleRest
    /\ selected \in SeqsUpTo(NumericEntries, MaxEntries + 1)
    /\ foodsMap \in Catalogs \cup {NoFoods}
    /\ target = NoTarget
    /\ entries = <<>>
    /\ iter = 0
    /\ totals = NoTotals

\* const totals = computeTotals(entries, foodsMap)
ComputeTotals ==
    /\ pc = "init"
    /\ totals' = computeTotals(selected, foodsMap)
    /\ pc' = "totalled"
    /\ UNCHANGED rest
    /\ UNCHANGED <<profile, normalized, errors, cycle, selected, foodsMap,
                   target, entries, iter>>

NextTotals == ComputeTotals

SpecTotals == InitTotals /\ [][NextTotals]_vars

-----------------------------------------------------------------------------
(* Specification of greedyGenerate, one step per phase and per iteration *)

InitSolver ==
    /\ pc = "init"
    /\ IdleCalc
    /\ IdleRest
    /\ \/ /\ selected \in SeqsUpTo(EntryPool, MaxEntries)
          /\ foodsMap \in Catalogs
          /\ target \in Targets
       \/ /\ selected = <<entry("chicken", "raw", 0)>>
          /\ foodsMap = ThinCatalog
          /\ target = [p |-> 40 * Scale, c |-> 0, f |-> 0]
    /\ entries = <<>>
    /\ iter = 0
    /\ totals = NoTotals

\* the clamp written into the caller's entries instead of a copy
ClampInPlace ==
    /\ pc = "init"
    /\ entries' = clampEntries(selected)
    /\ selected' = entries'
    /\ pc' = "clamped"
    /\ UNCHANGED rest
    /\ UNCHANGED <<profile, normalized, errors, cycle, foodsMap, target, iter,
                   totals>>

\* line 148: the working copy, quantities clamped
Clamp ==
    /\ pc = "init"
    /\ entries' = clampEntries(selected)
    /\ pc' = "clamped"
    /\ UNCHANGED rest
    /\ UNCHANGED <<profile, normalized, errors, cycle, selected, foodsMap,
                   target, iter, totals>>

\* lines 149-184: Phase 1
Seed ==
    /\ pc = "clamped"
    /\ entries' = phase1(entries, foodsMap, target)
    /\ pc' = "search"
    /\ UNCHANGED rest
    /\ UNCHANGED <<profile, normalized, errors, cycle, selected, foodsMap,
                   target, iter, totals>>

\* [base, idx, delta]: baseScore and the best move of one iteration of
\* Phase 2 (idx = 0: the loop is left, by baseScore < 1 or bestIdx < 0)
iteration(es, fm, tg) ==
    LET base == baseScore(es, fm, tg)
    IN  IF base < Scale THEN [base |-> base, idx |-> 0, delta |-> 0]
        ELSE LET m == searchMove(es, fm, tg)
             IN  [base |-> base, idx |-> m.idx, delta |-> m.delta]

\* lines 187-213: the for loop of Phase 2 from pass i on
RECURSIVE phase2(_, _, _, _)
phase2(es, fm, tg, i) ==
    IF i >= maxIterations THEN es
    ELSE LET m == iteration(es, fm, tg)
         IN  IF m.idx = 0 THEN es
             ELSE phase2([es EXCEPT ![m.idx].grams = Max(0, @ + m.delta)],
                         fm, tg, i + 1)

\* the whole call
greedyGenerate(sel, fm, tg) ==
    roundEntries(phase2(phase1(clampEntries(sel), fm, tg), fm, tg, 0))

\* Phase 2 without the bound of 1500 on its loop
IterateUncapped ==
    /\ pc = "search"
    /\ LET m == iteration(entries, foodsMap, target)
       IN  IF m.idx = 0
           THEN /\ pc' = "stopped"
                /\ UNCHANGED <<entries, iter>>
           ELSE /\ entries' = [entries EXCEPT
                                  ![m.idx].grams = Max(0, @ + m.delta)]
                /\ iter' = iter + 1
                /\ pc' = pc
    /\ UNCHANGED rest
    /\ UNCHANGED <<profile, normalized, errors, cycle, selected, foodsMap,
                   target, totals>>

\* lines 187-212: one pass through the for loop of Phase 2.  With i < 1500
\* and an improving move found, the move is applied and i incremented;
\* otherwise (i = 1500, baseScore < 1 or bestIdx < 0) the loop is left.
Iterate ==
    /\ pc = "search"
    /\ LET m == IF iter >= maxIterations
                THEN [base |-> 0, idx |-> 0, delta |-> 0]
                ELSE iteration(entries, foodsMap, target)
       IN  IF m.idx = 0
           THEN /\ pc' = "stopped"
                /\ UNCHANGED <<entries, iter>>
           ELSE /\ entries' = [entries EXCEPT
                                  ![m.idx].grams = Max(0, @ + m.delta)]
                /\ iter' = iter + 1
                /\ pc' = pc
    /\ UNCHANGED rest
    /\ UNCHANGED <<profile, normalized, errors, cycle, selected, foodsMap,
                   target, totals>>

\* line 215
Return ==
    /\ pc = "stopped"
    /\ entries' = roundEntries(entries)
    /\ pc' = "done"
    /\ UNCHANGED rest
    /\ UNCHANGED <<profile, normalized, errors, cycle, selected, foodsMap,
                   target, iter, totals>>

NextSolver == Clamp \/ Seed \/ Iterate \/ Return

SpecSolver == InitSolver /\ [][NextSolver]_vars

-----------------------------------------------------------------------------
(* Claims on greedyGenerate *)

isZero(tg) == tg.p = 0 /\ tg.c = 0 /\ tg.f = 0

Running == pc \in {"clamped", "search", "stopped", "done"}

\* C3: greedyGenerate never holds or returns a negative quantity: after the
\* initial clamp, after Phase 1, after every Phase 2 iteration and in the
\* returned list every entry's grams is a number >= 0, whatever the input
\* quantities (negative, not a number), ids, catalog and target (densities
\* and target components being numbers, as FoodsTab and calculateCycle
\* produce them).
C3_NonNegative ==
    Running => \A i \in 1..Len(entries) :
                   ~entries[i].nan /\ entries[i].grams >= 0

\* a list with a negative and a non-numeric quantity went through Phase 2
\* moves and was returned
C3_Witness ==
    /\ pc = "done"
    /\ iter > 0
    /\ \E i \in 1..Len(selected) : ~selected[i].nan /\ selected[i].grams < 0
    /\ \E i \in 1..Len(selected) : selected[i].nan

\* C4: the list greedyGenerate works on and returns has the length of its
\* input, and position by position the same foodId and the same basis:
\* nothing is added, removed, reordered or re-based.
C4_SameEntries ==
    Running =>
        /\ Len(entries) = Len(selected)
        /\ \A i \in 1..Len(selected) :
               /\ entries[i].foodId = selected[i].foodId
               /\ entries[i].basis = selected[i].basis

\* returned: two entries, one of them unresolved or with a basis its food
\* does not have, some quantity changed and some quantity left at zero
C4_Witness ==
    /\ pc = "done"
    /\ Len(selected) = 2
    /\ \E i \in 1..2 : \/ ~has(foodsMap, selected[i].foodId)
                       \/ selected[i].basis = "fresh"
    /\ \E i \in 1..2 : entries[i].grams # clampedGrams(selected[i])
    /\ \E i \in 1..2 : entries[i].grams = 0

\* quantities a valid plan holds: numbers >= 0 with two decimals
validQuantities(sel) ==
    \A i \in 1..Len(sel) :
        ~sel[i].nan /\ sel[i].grams >= 0 /\ sel[i].grams % (Scale \div 100) = 0

-----------------------------------------------------------------------------
(* Claims on computeTotals *)

nonNegativeQuantities(sel) == \A i \in 1..Len(sel) : sel[i].grams >= 0

nonNegativeDensities(fm) ==
    \A id \in DOMAIN fm : \A k \in 1..Len(fm[id].variants) :
        LET v == fm[id].variants[k]
        IN  v.p >= 0 /\ v.c >= 0 /\ v.f >= 0 /\ (v.hasKcal => v.kcal >= 0)

\* C7: with quantities >= 0 and a catalog whose variants all have p, c, f
\* and kcal densities >= 0, each of the four totals computeTotals returns
\* is >= 0.
C7_TotalsNonNegative ==
    (/\ pc = "totalled"
     /\ nonNegativeQuantities(selected)
     /\ nonNegativeDensities(foodsMap))
    => totals.p >= 0 /\ totals.c >= 0 /\ totals.f >= 0 /\ totals.kcal >= 0

\* totals of a list that resolves a variant without kcal next to one with
\* kcal, with positive quantities
C7_Witness ==
    /\ pc = "totalled"
    /\ nonNegativeQuantities(selected)
    /\ nonNegativeDensities(foodsMap)
    /\ totals.kcal > 0
    /\ totals.p > 0
    /\ \E i \in 1..Len(selected) :
           /\ has(foodsMap, selected[i].foodId)
           /\ ~getVariant(foodsMap[selected[i].foodId], selected[i].basis).hasKcal
           /\ selected[i].grams > 0

resolved(e) == has(foodsMap, e.foodId)

\* C8: entries whose foodId the catalog does not hold contribute nothing:
\* the totals equal the totals of the list without them, and a list with
\* no resolvable entry (the empty list among them) totals zero everywhere.
C8_UnresolvedSkipped ==
    pc = "totalled" =>
        /\ totals = computeTotals(SelectSeq(selected, resolved), foodsMap)
        /\ (SelectSeq(selected, resolved) = <<>>) => totals = NoTotals

\* totals of a list where an unresolved entry with a positive quantity
\* comes before a resolved one that contributes
C8_Witness ==
    /\ pc = "totalled"
    /\ Len(selected) >= 2
    /\ ~resolved(selected[1])
    /\ selected[1].grams > 0
    /\ resolved(selected[2])
    /\ totals.p > 0

-----------------------------------------------------------------------------
(* Specification of validateProfile *)

\* carb shares summing to 1, to 1 + 0.5e-6 and to 1 - 2e-6
CarbShareTriples ==
    {DEFAULT_CARB_SHARES,
     [DEFAULT_CARB_SHARES EXCEPT !.High = @ + 50],
     [DEFAULT_CARB_SHARES EXCEPT !.Medium = @ - 200]}

\* fat shares summing to 1, to 1 - 0.9e-6, to 1 + 1.5e-6 and to 0.9
FatShareTriples ==
    {DEFAULT_FAT_SHARES,
     [DEFAULT_FAT_SHARES EXCEPT !.Medium = @ - 90],
     [DEFAULT_FAT_SHARES EXCEPT !.Low = @ + 150],
     [DEFAULT_FAT_SHARES EXCEPT !.Medium = @ - 10000000]}

InitValidate ==
    /\ pc = "init"
    /\ \E d \in 1..MaxDays, h \in 0..MaxCount, m \in 0..MaxCount,
          l \in 0..MaxCount, pl \in SeqsUpTo(DayType, MaxCount + 1),
          cs \in CarbShareTriples, fs \in FatShareTriples :
          profile = [defaultProfile EXCEPT !.cycleDays = d, !.nHigh = h,
                        !.nMed = m, !.nLow = l, !.dayPlacement = pl,
                        !.carbShares = cs, !.fatShares = fs]
    /\ normalized = <<>>
    /\ errors = <<>>
    /\ cycle = NoCycle
    /\ IdleSolver
    /\ IdleRest

\* const validationErrors = validateProfile(profile)
Validate ==
    /\ pc = "init"
    /\ errors' = validateProfile(profile)
    /\ pc' = "validated"
    /\ UNCHANGED rest
    /\ UNCHANGED <<profile, normalized, cycle, selected, foodsMap, target,
                   entries, iter, totals>>

NextValidate == Validate

SpecValidate == InitValidate /\ [][NextValidate]_vars

occurrences(s, x) == Cardinality({i \in 1..Len(s) : s[i] = x})

countsFail(p) == p.nHigh + p.nMed + p.nLow # p.cycleDays
\* the sums within 1e-6 of 1: 100 ticks either side of ShareScale
withinTolerance == (ShareScale - 100)..(ShareScale + 100)
carbFail(p) ==
    p.carbShares.High + p.carbShares.Medium + p.carbShares.Low \notin withinTolerance
fatFail(p) ==
    p.fatShares.High + p.fatShares.Medium + p.fatShares.Low \notin withinTolerance
placementFail(p) ==
    \E k \in DayType : count(p.dayPlacement, k) # required(p)[k]

failing(p) ==
    (IF countsFail(p) THEN {countsError} ELSE {})
    \cup (IF carbFail(p) THEN {carbError} ELSE {})
    \cup (IF fatFail(p) THEN {fatError} ELSE {})
    \cup (IF placementFail(p) THEN {placementError} ELSE {})

\* C9: validateProfile evaluates its four checks independently (counts sum
\* to cycleDays; carb shares sum to 1 within 1e-6; fat shares sum to 1
\* within 1e-6; placement counts equal nHigh/nMed/nLow) and returns exactly
\* one descriptor per failing check and none for a passing one; the list
\* is empty exactly when all four hold.
C9_OneErrorPerFailingCheck ==
    pc = "validated" =>
        /\ {errors[i] : i \in 1..Len(errors)} = failing(profile)
        /\ Len(errors) = Cardinality(failing(profile))
        /\ \A x \in failing(profile) : occurrences(errors, x) = 1
        /\ (errors = <<>>) <=>
               ~(countsFail(profile) \/ carbFail(profile)
                 \/ fatFail(profile) \/ placementFail(profile))

\* a profile failing the first and the last check only, its share sums
\* within the tolerance but not equal to 1
C9_Witness ==
    /\ pc = "validated"
    /\ errors = <<countsError, placementError>>
    /\ shareSum(profile.carbShares) # ShareScale

-----------------------------------------------------------------------------
(* Specification of calculateCycle *)

\* the placement setCounts builds: nHigh High, nMed Medium, nLow Low
blockPlacement(h, m, l) ==
    [i \in 1..(h + m + l) |->
        IF i <= h THEN "High" ELSE IF i <= h + m THEN "Medium" ELSE "Low"]

\* Weights and rates whose per-day targets never fall on a decimal tie
\* (x.xx5): there the double product of the source lies a hair to either
\* side of the tie and Math.round follows the double, not the decimal.
Weights == {70 * Scale, 613600}
ProteinRates == {12000, 15550}
EctoFatRates == {1 * Scale, 12000}

\* the default shares, and a pair of other shares summing to 1
SharePairs ==
    {<<DEFAULT_CARB_SHARES, DEFAULT_FAT_SHARES>>,
     <<[High |-> 60000000, Medium |-> 30000000, Low |-> 10000000],
       [High |-> 33330000, Medium |-> 33330000, Low |-> 33340000]>>}

InitCycle ==
    /\ pc = "init"
    /\ \E w \in Weights, bt \in {"endo", "ecto"}, pr \in ProteinRates,
          ef \in EctoFatRates, d \in 1..MaxDays, h \in 0..MaxCount,
          m \in 0..MaxCount, l \in 0..MaxCount, sh \in SharePairs :
          \E pl \in SeqsUpTo(DayType, 2) \cup {blockPlacement(h, m, l)} :
              profile = [defaultProfile EXCEPT !.weightKg = w, !.bodyType = bt,
                            !.proteinPerKg = pr, !.ectoFatPerKg = ef,
                            !.cycleDays = d, !.nHigh = h, !.nMed = m,
                            !.nLow = l, !.dayPlacement = pl,
                            !.carbShares = sh[1], !.fatShares = sh[2]]
    /\ normalized = <<>>
    /\ errors = <<>>
    /\ cycle = NoCycle
    /\ IdleSolver
    /\ IdleRest

\* const cycle = calculateCycle(profile)
Calculate ==
    /\ pc = "init"
    /\ cycle' = calculateCycle(profile)
    /\ pc' = "cycled"
    /\ UNCHANGED rest
    /\ UNCHANGED <<profile, normalized, errors, selected, foodsMap, target,
                   entries, iter, totals>>

NextCycle == Calculate

SpecCycle == InitCycle /\ [][NextCycle]_vars

\* weight * rate for a weight with two decimals, in ticks
timesRate(w, rate) == ((w \div 100) * rate) \div 100

\* C10: calculateCycle returns pDay = weight * proteinPerKg, cTotal =
\* weight * carbPerKg * cycleDays and fTotal = weight * fatPerKg *
\* cycleDays, each rounded to 2 decimals, with carbPerKg 2.0 and fatPerKg
\* 0.8 for 'endo', carbPerKg 3.0 and fatPerKg = ectoFatPerKg for 'ecto';
\* for 'endo' no output depends on ectoFatPerKg.  Weight 70, endo,
\* proteinPerKg 1.2, cycleDays 5 gives 84, 700 and 280.
C10_CycleTotals ==
    pc = "cycled" =>
        LET w == profile.weightKg
            d == profile.cycleDays
        IN  /\ cycle.pDay = round2(timesRate(w, profile.proteinPerKg))
            /\ profile.bodyType = "endo" =>
                   /\ cycle.cTotal = round2(w * 2 * d)
                   /\ cycle.fTotal = round2((w * 8 * d) \div 10)
                   /\ \A ef \in EctoFatRates :
                          calculateCycle([profile EXCEPT !.ectoFatPerKg = ef])
                              = cycle
            /\ profile.bodyType = "ecto" =>
                   /\ cycle.cTotal = round2(w * 3 * d)
                   /\ cycle.fTotal = round2(timesRate(w, profile.ectoFatPerKg) * d)
            /\ (/\ w = 70 * Scale
                /\ profile.bodyType = "endo"
                /\ profile.proteinPerKg = 12000
                /\ d = 5)
               => /\ cycle.pDay = 84 * Scale
                  /\ cycle.cTotal = 700 * Scale
                  /\ cycle.fTotal = 280 * Scale

\* scenario A computed for an endo profile whose ectoFatPerKg is not 1.0
C10_Witness ==
    /\ pc = "cycled"
    /\ profile.weightKg = 70 * Scale
    /\ profile.bodyType = "endo"
    /\ profile.proteinPerKg = 12000
    /\ profile.cycleDays = 5
    /\ profile.ectoFatPerKg = 12000
    /\ cycle.fTotal = 280 * Scale

-----------------------------------------------------------------------------
(* Claims on the per-day targets of calculateCycle *)

\* weight * carbPerKg * cycleDays and weight * fatPerKg * cycleDays, unrounded
rawCarbTotal(p) ==
    p.weightKg * (IF p.bodyType = "endo" THEN 2 ELSE 3) * p.cycleDays
rawFatTotal(p) ==
    IF p.bodyType = "endo" THEN (p.weightKg * 8 * p.cycleDays) \div 10
    ELSE timesRate(p.weightKg, p.ectoFatPerKg) * p.cycleDays

halfCent == Scale \div 200
cent == Scale \div 100

\* t is x / n rounded to 2 decimals (n > 0): x / n lies in [t - 0.005, t + 0.005)
roundedQuotient(t, x, n) ==
    /\ t % cent = 0
    /\ (t - halfCent) * n <= x
    /\ x < (t + halfCent) * n

scenarioB(p) ==
    /\ p.weightKg = 70 * Scale /\ p.bodyType = "endo" /\ p.cycleDays = 5
    /\ p.nHigh = 2 /\ p.nMed = 2 /\ p.nLow = 1
    /\ p.carbShares = DEFAULT_CARB_SHARES

\* C11: the carb (fat) target of a day is (total * share of the day's
\* category) / count of the category, rounded to 2 decimals, when that
\* count is > 0, and 0 when the count is 0.  Counts {2, 2, 1}, carb shares
\* {0.5, 0.35, 0.15} and cTotal 700 give 175, 122.5 and 105.
C11_PerDayTargets ==
    pc = "cycled" =>
        \A i \in 1..Len(cycle.dayTargets) :
            LET t == cycle.dayTargets[i]
                k == profile.dayPlacement[i]
                n == required(profile)[k]
            IN  /\ n = 0 => t.carbTarget = 0 /\ t.fatTarget = 0
                /\ n > 0 =>
                       /\ roundedQuotient(t.carbTarget,
                              MulShare(rawCarbTotal(profile),
                                       profile.carbShares[k]), n)
                       /\ roundedQuotient(t.fatTarget,
                              MulShare(rawFatTotal(profile),
                                       profile.fatShares[k]), n)
                /\ scenarioB(profile) =>
                       t.carbTarget = (IF k = "High" THEN 175 * Scale
                                       ELSE IF k = "Medium" THEN 1225000
                                       ELSE 105 * Scale)

\* scenario B on its five days
C11_Witness ==
    /\ pc = "cycled"
    /\ scenarioB(profile)
    /\ profile.dayPlacement = <<"High", "High", "Medium", "Medium", "Low">>
    /\ cycle.cTotal = 700 * Scale
    /\ cycle.dayTargets[5].carbTarget = 105 * Scale

\* a day placed on a category whose count is 0, next to one whose count is
\* not, with non-default shares
C11_WitnessZeroCount ==
    /\ pc = "cycled"
    /\ profile.nHigh = 0
    /\ profile.nLow = 2
    /\ profile.dayPlacement = <<"High", "Low">>
    /\ profile.carbShares # DEFAULT_CARB_SHARES
    /\ cycle.dayTargets[1].carbTarget = 0
    /\ cycle.dayTargets[2].fatTarget > 0

RECURSIVE sumOfType(_, _, _, _)
sumOfType(dts, k, macro, i) ==
    IF i > Len(dts) THEN 0
    ELSE (IF dts[i].dayType = k
          THEN (IF macro = "c" THEN dts[i].carbTarget ELSE dts[i].fatTarget)
          ELSE 0) + sumOfType(dts, k, macro, i + 1)

consistent(p) ==
    /\ CountsSumToCycle(p)
    /\ p.carbShares.High + p.carbShares.Medium + p.carbShares.Low = ShareScale
    /\ p.fatShares.High + p.fatShares.Medium + p.fatShares.Low = ShareScale
    /\ \A k \in DayType : count(p.dayPlacement, k) = required(p)[k]

\* |s - x| <= 0.01 * n for x known by its floor xf (xf <= x < xf + 1 tick)
withinCents(s, xf, n) == s - xf <= cent * n /\ xf + 1 - s <= cent * n

\* C12: for a profile whose counts sum to cycleDays, whose shares sum to 1
\* and whose placement has the required counts, and for each category with
\* n > 0 days: the carb targets of the n days of the category add up to
\* cTotal * carbShare within 0.01 * n (cTotal taken unrounded or as
\* returned); the same for fat.
C12_Reconstruction ==
    (pc = "cycled" /\ consistent(profile)) =>
        \A k \in DayType :
            LET n == required(profile)[k]
                sc == sumOfType(cycle.dayTargets, k, "c", 1)
                sf == sumOfType(cycle.dayTargets, k, "f", 1)
            IN  n > 0 =>
                  /\ withinCents(sc, MulShare(rawCarbTotal(profile),
                                              profile.carbShares[k]), n)
                  /\ withinCents(sc, MulShare(cycle.cTotal,
                                              profile.carbShares[k]), n)
                  /\ withinCents(sf, MulShare(rawFatTotal(profile),
                                              profile.fatShares[k]), n)
                  /\ withinCents(sf, MulShare(cycle.fTotal,
                                              profile.fatShares[k]), n)

\* a consistent five-day profile whose two High days do not add up to
\* fTotal * share exactly
C12_Witness ==
    /\ pc = "cycled"
    /\ consistent(profile)
    /\ profile.cycleDays = 5
    /\ profile.nHigh = 2
    /\ sumOfType(cycle.dayTargets, "High", "f", 1)
           # MulShare(rawFatTotal(profile), profile.fatShares.High)
    /\ sumOfType(cycle.dayTargets, "High", "f", 1) > 0

-----------------------------------------------------------------------------
(* Specification of round2 *)

\* round2 is applied to the values -MaxValue..MaxValue, in ticks of 1/Scale
MaxValue == 300

InitRound ==
    /\ pc = "init"
    /\ value \in (0 - MaxValue)..MaxValue
    /\ rounded = 0
    /\ IdleCalc
    /\ IdleSolver
    /\ IdleHost
    /\ IdleStore

\* round2(n)
Round ==
    /\ pc = "init"
    /\ rounded' = round2(value)
    /\ pc' = "rounded"
    /\ UNCHANGED hostVars
    /\ UNCHANGED storeVars
    /\ UNCHANGED <<profile, normalized, errors, cycle, selected, foodsMap,
                   target, entries, iter, totals, value>>

NextRound == Round

SpecRound == InitRound /\ [][NextRound]_vars

\* rounded is a hundredth nearest to value
nearestCent == rounded % cent = 0 /\ Abs(rounded - value) <= halfCent
tie == Abs(rounded - value) = halfCent

\* C13 as stated: round2 returns the nearest hundredth, a value halfway
\* between two hundredths going to the one with the larger absolute value,
\* for negative values too.
C13_HalfAwayFromZero ==
    pc = "rounded" => nearestCent /\ (tie => Abs(rounded) > Abs(value))

\* C13 amended: round2 returns the nearest hundredth, a value halfway
\* between two hundredths going to the larger of the two (toward plus
\* infinity): away from zero for values >= 0, toward zero for values < 0.
C13_HalfUp ==
    pc = "rounded" =>
        /\ nearestCent
        /\ tie => rounded > value
        /\ (tie /\ value >= 0) => Abs(rounded) > Abs(value)
        /\ (tie /\ value < 0) => Abs(rounded) < Abs(value)

\* -0.015 rounded to -0.01
C13_Witness ==
    /\ pc = "rounded"
    /\ value = 0 - 3 * halfCent
    /\ rounded = 0 - cent

-----------------------------------------------------------------------------
(* Specification of the host: App's profile, selected day and day plans *)

Min(a, b) == IF a <= b THEN a ELSE b

\* function clamp(n, min, max)
\* a clamp that only holds the lower bound
clampFromBelow(n, lo, hi) == Max(lo, n)

clamp(n, lo, hi) == Min(hi, Max(lo, n))

\* bound on the calls of greedyGenerate in one run
MaxGenerations == 1

\* values typed into the cycle-days field (clamped to 1..30 by the handler)
DaysInputs == {0, 31}
\* the count field that is edited and the values typed into it, the
\* values typed into a share field and into a grams field
CountEdits == {"Low"}
CountInputs == {1, 2}
ShareInputs == {50000000, 40000000}
GramsInputs == {100 * Scale}
\* the day indexes whose placement select is used, the days shown in the
\* Foods tab, and those among them whose plan is edited
PlacementEdits == {0}
ShownDays == {1, 2}
PlanDays == {1}

\* allFoods: builtins and custom foods
HostFoods == [id \in {"chicken"} |-> Chicken]

InitHost ==
    /\ pc = "host"
    /\ profile = defaultProfile
    /\ normalized = <<>>
    /\ errors = validateProfile(defaultProfile)
    /\ cycle = calculateCycle(defaultProfile)
    /\ selected = <<>>
    /\ foodsMap = HostFoods
    /\ target = NoTarget
    /\ entries = <<>>
    /\ iter = 0
    /\ totals = NoTotals
    /\ IdleRound
    /\ IdleHost
    /\ IdleStore

\* const currentEntries = dayPlans[selectedDay] ?? []
currentEntries ==
    IF selectedDay \in DOMAIN dayPlans THEN dayPlans[selectedDay] ELSE <<>>

\* const currentDayTarget = cycle.dayTargets[selectedDay - 1] is defined
hasCurrentDayTarget == selectedDay \in 1..Len(cycle.dayTargets)

\* setProfile(next): the memoised cycle and validationErrors follow
setProfile(next) ==
    /\ profile' = next
    /\ cycle' = calculateCycle(next)
    /\ errors' = validateProfile(next)

\* what no handler of App touches
hostFrame ==
    UNCHANGED <<pc, normalized, selected, foodsMap, target, entries, iter,
                totals, value, rounded, idb, ls, written, got>>

\* setDayPlans((plans) => ({ ...plans, [selectedDay]: list }))
withPlan(list) ==
    [d \in DOMAIN dayPlans \cup {selectedDay} |->
        IF d = selectedDay THEN list ELSE dayPlans[d]]

\* function setCycleDays(nextDays)
setCycleDays(nextDays) ==
    /\ LET cycleDays == clamp(nextDays, 1, 30)
           nHigh == Min(profile.nHigh, cycleDays)
           nMed == Min(profile.nMed, cycleDays - nHigh)
           nLow == Max(0, cycleDays - nHigh - nMed)
       IN  setProfile([profile EXCEPT
               !.cycleDays = cycleDays, !.nHigh = nHigh, !.nMed = nMed,
               !.nLow = nLow,
               !.dayPlacement = blockPlacement(nHigh, nMed, nLow)])
    /\ selectedDay' = 1
    /\ UNCHANGED <<dayPlans, generations>>
    /\ hostFrame

\* function setCounts(nHigh, nMed, nLow)
setCounts(nHigh, nMed, nLow) ==
    /\ IF nHigh + nMed + nLow # profile.cycleDays
       THEN setProfile([profile EXCEPT !.nHigh = nHigh,
                           !.nMed = nMed, !.nLow = nLow])
       ELSE setProfile([profile EXCEPT !.nHigh = nHigh,
                           !.nMed = nMed, !.nLow = nLow,
                           !.dayPlacement =
                               blockPlacement(nHigh, nMed, nLow)])
    /\ UNCHANGED hostVars
    /\ hostFrame

\* function setPlacement(dayIndex, dayType): next[dayIndex] = dayType on a
\* copy, for an index the placement has
setPlacement(dayIndex, dayType) ==
    /\ dayIndex \in 0..(Len(profile.dayPlacement) - 1)
    /\ setProfile([profile EXCEPT !.dayPlacement[dayIndex + 1] = dayType])
    /\ UNCHANGED hostVars
    /\ hostFrame

\* setCycleDays(Number(e.target.value)), from the cycle-days field
SetCycleDays == \E nextDays \in DaysInputs : setCycleDays(nextDays)

\* setCounts(nHigh, nMed, nLow), called with one count edited
SetCounts ==
    \E k \in CountEdits, v \in CountInputs :
        setCounts(IF k = "High" THEN v ELSE profile.nHigh,
                  IF k = "Medium" THEN v ELSE profile.nMed,
                  IF k = "Low" THEN v ELSE profile.nLow)

\* setPlacement(dayIndex, dayType), from the select of one of the days
SetPlacement ==
    \E dayIndex \in PlacementEdits, dayType \in DayType :
        setPlacement(dayIndex, dayType)

\* setCarbShare(dayType, value)
SetCarbShare ==
    /\ \E v \in ShareInputs :
          setProfile([profile EXCEPT !.carbShares["High"] = v])
    /\ UNCHANGED hostVars
    /\ hostFrame

\* setFatShare(dayType, value)
SetFatShare ==
    /\ \E v \in ShareInputs :
          setProfile([profile EXCEPT !.fatShares["Low"] = v])
    /\ UNCHANGED hostVars
    /\ hostFrame

\* onSetSelectedDay: one of the options, a day of cycle.dayTargets
SetSelectedDay ==
    /\ \E d \in ShownDays \cap 1..Len(cycle.dayTargets) :
          selectedDay' = d
    /\ UNCHANGED <<profile, cycle, errors, dayPlans, generations>>
    /\ hostFrame

\* entries.findIndex((e) => e.foodId === foodId), 1-based, 0 for -1
RECURSIVE findIndex(_, _, _)
findIndex(es, foodId, i) ==
    IF i > Len(es) THEN 0
    ELSE IF es[i].foodId = foodId THEN i
    ELSE findIndex(es, foodId, i + 1)

\* entries.splice(idx): with no count, everything from idx on goes
spliceToEnd(es, idx) == SubSeq(es, 1, idx - 1)

\* entries.splice(idx, 1)
splice(es, idx) ==
    [j \in 1..(Len(es) - 1) |-> IF j < idx THEN es[j] ELSE es[j + 1]]

\* function toggleFood(foodId), for a food of the catalog
toggleFood(foodId) ==
    /\ LET idx == findIndex(currentEntries, foodId, 1)
       IN  dayPlans' = withPlan(
               IF idx > 0 THEN splice(currentEntries, idx)
               ELSE Append(currentEntries,
                           [foodId |-> foodId,
                            basis |-> foodsMap[foodId].variants[1].basis,
                            grams |-> 0, nan |-> FALSE]))
    /\ UNCHANGED <<profile, cycle, errors, selectedDay, generations>>
    /\ hostFrame

\* { ...entries[idx], ...patch }
patched(e, patch) ==
    [k \in DOMAIN e |-> IF k \in DOMAIN patch THEN patch[k] ELSE e[k]]

\* function patchEntry(foodId, patch)
patchEntry(foodId, patch) ==
    /\ LET idx == findIndex(currentEntries, foodId, 1)
       IN  IF idx = 0 THEN dayPlans' = dayPlans
           ELSE dayPlans' = withPlan([currentEntries EXCEPT
                                 ![idx] = patched(@, patch)])
    /\ UNCHANGED <<profile, cycle, errors, selectedDay, generations>>
    /\ hostFrame

\* toggleFood(foodId), from a food of the list
ToggleFood ==
    /\ selectedDay \in PlanDays
    /\ \E foodId \in DOMAIN foodsMap : toggleFood(foodId)

\* patchEntry(foodId, { grams }) and patchEntry(foodId, { basis }), from
\* the row of an entry of the selected day
PatchEntry ==
    \E idx \in 1..Len(currentEntries) :
        \/ \E g \in GramsInputs :
              patchEntry(currentEntries[idx].foodId, [grams |-> g])
        \/ \E k \in 1..Len(foodsMap[currentEntries[idx].foodId].variants) :
              patchEntry(currentEntries[idx].foodId,
                  [basis |->
                      foodsMap[currentEntries[idx].foodId].variants[k].basis])

\* the button that is always enabled when the day has entries
autoGenerateEnabledWithEntries == Len(currentEntries) > 0

\* disabled={!currentEntries.length || validationErrors.length > 0}
autoGenerateEnabled == Len(currentEntries) > 0 /\ errors = <<>>

\* handleAutoGenerate, from the enabled button
HandleAutoGenerate ==
    /\ autoGenerateEnabled
    /\ generations < MaxGenerations
    /\ IF ~hasCurrentDayTarget
       THEN UNCHANGED <<dayPlans, generations>>
       ELSE LET t == cycle.dayTargets[selectedDay]
            IN  /\ dayPlans' = withPlan(greedyGenerate(currentEntries, foodsMap,
                                     [p |-> t.proteinTarget,
                                      c |-> t.carbTarget,
                                      f |-> t.fatTarget]))
                /\ generations' = generations + 1
    /\ UNCHANGED <<profile, cycle, errors, selectedDay>>
    /\ hostFrame

NextHost ==
    \/ SetCycleDays
    \/ SetCounts
    \/ SetPlacement
    \/ SetCarbShare
    \/ SetFatShare
    \/ SetSelectedDay
    \/ ToggleFood
    \/ PatchEntry
    \/ HandleAutoGenerate

SpecHost == InitHost /\ [][NextHost]_vars

\* C14: greedyGenerate is called by handleAutoGenerate only in a state
\* where validateProfile(profile) is empty, the selected day has an entry
\* and a day target exists for the selected day; so from a state whose
\* profile has a validation error, whatever edit left it, no step calls
\* greedyGenerate.
C14_GenerateGated ==
    [][/\ generations' # generations =>
              /\ validateProfile(profile) = <<>>
              /\ Len(currentEntries) > 0
              /\ selectedDay \in 1..Len(calculateCycle(profile).dayTargets)
       /\ validateProfile(profile) # <<>> => generations' = generations]_vars

\* grams generated for an edited, valid profile
C14_Witness ==
    /\ generations = 1
    /\ profile # defaultProfile
    /\ validateProfile(profile) = <<>>
    /\ Len(currentEntries) = 1
    /\ currentEntries[1].grams > 100 * Scale

\* an edit left a validation error after grams were generated: the button
\* is disabled although the day has entries
C14_WitnessDisabled ==
    /\ generations = 1
    /\ validateProfile(profile) # <<>>
    /\ Len(currentEntries) = 1

-----------------------------------------------------------------------------
(* Specification of the core: each exported function called on its inputs *)

InitCore ==
    /\ pc = "init"
    /\ normalized = <<>>
    /\ errors = <<>>
    /\ cycle = NoCycle
    /\ entries = <<>>
    /\ iter = 0
    /\ totals = NoTotals
    /\ IdleRest
    /\ \/ /\ \E d \in 1..MaxDays,
                 pl \in SeqsUpTo(DayType, 2) \cup {defaultProfile.dayPlacement} :
                 profile = [defaultProfile EXCEPT !.cycleDays = d,
                                                  !.dayPlacement = pl]
          /\ selected = <<>>
          /\ foodsMap = NoFoods
          /\ target = NoTarget
       \/ /\ profile = defaultProfile
          /\ selected \in SeqsUpTo(EntryPool, MaxEntries)
          /\ foodsMap \in Catalogs
          /\ target \in Targets

NextCore ==
    \/ Normalize
    \/ Validate
    \/ Calculate
    \/ ComputeTotals
    \/ Clamp
    \/ Seed
    \/ Iterate
    \/ Return

SpecCore == InitCore /\ [][NextCore]_vars

\* C15: the core functions leave their inputs as they were: no step of
\* normalizePlacement, validateProfile, calculateCycle, computeTotals or
\* greedyGenerate changes the profile (its dayPlacement included), the
\* input entries (foodId, basis, grams), the catalog or the target; and a
\* pass of Phase 2 leaves no trial delta behind: it changes the working
\* quantity of at most one entry.
C15_InputsUntouched ==
    [][/\ profile' = profile
       /\ selected' = selected
       /\ foodsMap' = foodsMap
       /\ target' = target
       /\ pc = "search" =>
              Cardinality({i \in 1..Len(entries) : entries'[i] # entries[i]}) <= 1]_vars

\* greedyGenerate returned moved quantities and its input still holds the
\* negative or non-numeric quantity it came with
C15_Witness ==
    /\ pc = "done"
    /\ iter > 0
    /\ \E i \in 1..Len(selected) :
           /\ selected[i].nan \/ selected[i].grams < 0
           /\ ~entries[i].nan
           /\ entries[i].grams >= 0

\* normalizePlacement returned a repaired sequence and the profile still
\* holds the placement it came with
C15_WitnessPlacement ==
    /\ pc = "normalized"
    /\ normalized # profile.dayPlacement
    /\ Len(profile.dayPlacement) = 2

-----------------------------------------------------------------------------
(* Claim on the convergence of greedyGenerate, under SpecSolver *)

\* one selected food of protein density 20 and no carbohydrate or fat, no
\* quantity yet, and the target p = 40, c = 0, f = 0
scenarioD ==
    /\ Len(selected) = 1
    /\ ~selected[1].nan
    /\ selected[1].grams = 0
    /\ selected[1].foodId \in DOMAIN foodsMap
    /\ LET v == getVariant(foodsMap[selected[1].foodId], selected[1].basis)
       IN  v.p = 20 * Scale /\ v.c = 0 /\ v.f = 0
    /\ target = [p |-> 40 * Scale, c |-> 0, f |-> 0]

\* the quantity 40 / 20 x 100 that meets the target exactly
exactQuantity == 200 * Scale

\* C16: in scenario D (one selected food of protein density 20 per 100
\* units with no carbohydrate and no fat, initial quantity 0, target p = 40,
\* c = 0, f = 0) greedyGenerate returns one entry whose quantity is within
\* one step of 200, the score of the returned entries is below 1, and the
\* search has used at most 200 / step of its 1500 iterations, whether or
\* not Phase 1 seeds the food.
C16_ScenarioD ==
    scenarioD /\ Running =>
        /\ iter * step * Scale <= exactQuantity
        /\ iter < maxIterations
        /\ pc = "done" =>
              /\ Len(entries) = 1
              /\ entries[1].grams \in (exactQuantity - step * Scale)
                                        ..(exactQuantity + step * Scale)
              /\ score(target, computeTotals(entries, foodsMap)) < Scale

\* the call has returned in scenario D for a food Phase 1 does not seed: 40
\* steps of Phase 2 from quantity 0
C16_Witness ==
    /\ scenarioD
    /\ foodsMap[selected[1].foodId].category # "protein"
    /\ pc = "done"
    /\ iter = 40
    /\ entries[1].grams = exactQuantity

\* the call has returned in scenario D for a food of category protein:
\* seeded with 140, then 12 steps of Phase 2
C16_WitnessSeeded ==
    /\ scenarioD
    /\ foodsMap[selected[1].foodId].category = "protein"
    /\ pc = "done"
    /\ iter = 12
    /\ entries[1].grams = exactQuantity

-----------------------------------------------------------------------------
(* Specification of storage.ts: idbSet and idbGet, each call as one step.
   Whether a call's IndexedDB part succeeds is the browser's choice, made
   anew for every call (openDb or the transaction rejects, e.g. storage
   blocked or quota exceeded). *)

\* two of App's STORAGE_KEYS
Keys == {"cc_profile_v2", "cc_lang_v2"}

\* stored values: two plain ones and one holding a number that is NaN
Values == {"a", "b", "NaN"}

\* the fallback handed to idbGet
Fallbacks == {"fallback"}

\* JSON.stringify(value): NaN is written as null
stringify(v) == [json |-> IF v = "NaN" THEN "null" ELSE v]

\* JSON.parse(raw)
parse(raw) == raw.json

\* put(value, key) / setItem(key, value)
put(store, k, v) ==
    [x \in DOMAIN store \cup {k} |-> IF x = k THEN v ELSE store[x]]

InitStore ==
    /\ pc = "store"
    /\ IdleCalc
    /\ IdleSolver
    /\ IdleRound
    /\ IdleHost
    /\ IdleStore

\* idbSet(key, value): put into the object store, or, when that rejects,
\* localStorage.setItem(key, JSON.stringify(value))
IdbSet ==
    /\ pc = "store"
    /\ \E key \in Keys, v \in Values, ok \in BOOLEAN :
          /\ IF ok
             THEN idb' = put(idb, key, v) /\ ls' = ls
             ELSE ls' = put(ls, key, stringify(v)) /\ idb' = idb
          /\ written' = put(written, key, v)
    /\ UNCHANGED <<pc, profile, normalized, errors, cycle, selected, foodsMap,
                   target, entries, iter, totals, value, rounded, got>>
    /\ UNCHANGED hostVars

\* idbGet(key, fallback): the object store's value (fallback when it is
\* undefined), or, when IndexedDB rejects, localStorage's parsed item
\* (fallback when there is none)
idbGetResult(key, fallback, ok) ==
    IF ok
    THEN IF key \in DOMAIN idb THEN idb[key] ELSE fallback
    ELSE IF key \in DOMAIN ls THEN parse(ls[key]) ELSE fallback

IdbGet ==
    /\ pc = "store"
    /\ \E key \in Keys, fallback \in Fallbacks, ok \in BOOLEAN :
          got' = <<[key |-> key,
                    viaIdb |-> ok,
                    result |-> idbGetResult(key, fallback, ok),
                    promised |-> IF key \in DOMAIN written
                                 THEN written[key] ELSE fallback]>>
    /\ UNCHANGED <<pc, profile, normalized, errors, cycle, selected, foodsMap,
                   target, entries, iter, totals, value, rounded, idb, ls,
                   written>>
    /\ UNCHANGED hostVars

NextStore == IdbSet \/ IdbGet

SpecStore == InitStore /\ [][NextStore]_vars

-----------------------------------------------------------------------------
(* Claim on storage.ts *)

\* C17: persistence falls back from IndexedDB to localStorage
\* transparently: a completed idbGet(key, fallback) returns the value of
\* the last completed idbSet(key, v) before it, and fallback when no idbSet
\* for key has completed, whichever of the two stores each call used.
C17_RoundTrip ==
    got # <<>> => got[1].result = got[1].promised

-----------------------------------------------------------------------------
(* Claim on the positions normalizePlacement changes, under SpecNormalize *)

\* how many days of category k the truncated/padded sequence has too many
excess(p, k) == Max(0, count(padded(p), k) - required(p)[k])

\* the place of position i among the occurrences of its category, counted
\* from the tail: 1 for the last occurrence
fromTail(arr, i) == Cardinality({j \in i..Len(arr) : arr[j] = arr[i]})

changed(p, out) == {i \in 1..Len(out) : out[i] # padded(p)[i]}

\* C18: normalizePlacement repairs with the least disruption, from the
\* tail. For counts (numbers of days, 0 or more) that sum to cycleDays, a
\* position of the truncated/padded sequence is changed exactly if it is
\* one of the last k occurrences of a category that occurs k times too
\* often; earlier occurrences and categories not in excess keep their
\* value, and the number of changed positions is the total excess.
\* High, High, High, Medium, Low against 2, 2, 1 becomes High, High,
\* Medium, Medium, Low.
C18_TailRepair ==
    (pc = "normalized" /\ CountsSumToCycle(profile)) =>
        LET out == padded(profile)
        IN  /\ Len(normalized) = Len(out)
            /\ \A i \in 1..Len(out) :
                  normalized[i] # out[i]
                      <=> fromTail(out, i) <= excess(profile, out[i])
            /\ Cardinality(changed(profile, normalized))
                   = excess(profile, "High") + excess(profile, "Medium")
                       + excess(profile, "Low")
            /\ (/\ out = <<"High", "High", "High", "Medium", "Low">>
                /\ required(profile) = [High |-> 2, Medium |-> 2, Low |-> 1])
               => normalized = <<"High", "High", "Medium", "Medium", "Low">>

\* scenario C has been normalized: one High day too many, the third
\* position the last of them
C18_Witness ==
    /\ pc = "normalized"
    /\ profile.dayPlacement = <<"High", "High", "High", "Medium", "Low">>
    /\ profile.cycleDays = 5
    /\ required(profile) = [High |-> 2, Medium |-> 2, Low |-> 1]
    /\ changed(profile, normalized) = {3}
    /\ normalized[3] = "Medium"

\* two categories in excess at once, and an occurrence of one of them that
\* stays: Medium, Medium, Medium padded with Low, Low against 2, 2, 1
C18_WitnessTwoExcess ==
    /\ pc = "normalized"
    /\ CountsSumToCycle(profile)
    /\ excess(profile, "Medium") = 1
    /\ excess(profile, "Low") = 1
    /\ changed(profile, normalized) = {3, 5}

-----------------------------------------------------------------------------
(* Claim on the list of day targets, under SpecCycle *)

\* C19: calculateCycle returns one DayTarget per position of
\* profile.dayPlacement, in order: the target at the n-th position (n from
\* 1) has day = n and the category placed there; every day has the protein
\* target round2(weightKg x proteinPerKg); and two days of one category
\* have the same carbohydrate and the same fat target.
C19_OnePerPosition ==
    pc = "cycled" =>
        LET ts == cycle.dayTargets
            pl == profile.dayPlacement
        IN  /\ DOMAIN ts = 1..Len(pl)
            /\ \A n \in 1..Len(pl) :
                  /\ ts[n].day = n
                  /\ ts[n].dayType = pl[n]
                  /\ ts[n].proteinTarget
                        = round2(Mul(profile.weightKg, profile.proteinPerKg))
            /\ \A n, o \in 1..Len(pl) :
                  pl[n] = pl[o] =>
                      /\ ts[n].carbTarget = ts[o].carbTarget
                      /\ ts[n].fatTarget = ts[o].fatTarget

\* a cycle of five days has been computed: the two High days share their
\* targets, which the Medium and Low days do not have
C19_Witness ==
    /\ pc = "cycled"
    /\ profile.dayPlacement = <<"High", "High", "Medium", "Medium", "Low">>
    /\ Len(cycle.dayTargets) = 5
    /\ cycle.dayTargets[5].day = 5
    /\ cycle.dayTargets[1].carbTarget = cycle.dayTargets[2].carbTarget
    /\ cycle.dayTargets[1].carbTarget > 0
    /\ cycle.dayTargets[2].carbTarget # cycle.dayTargets[3].carbTarget
    /\ cycle.dayTargets[3].fatTarget # cycle.dayTargets[5].fatTarget

-----------------------------------------------------------------------------
(* Claim on negative quantities in computeTotals, under SpecTotals *)

\* the list with every negative quantity replaced by 0
zeroed(es) ==
    [i \in 1..Len(es) |-> [es[i] EXCEPT !.grams = Max(0, @)]]

notNegative(e) == e.grams >= 0

\* C20: computeTotals clamps the quantities before it aggregates: the
\* ratio is max(0, grams) / 100, so an entry with a negative quantity
\* contributes what it would with quantity 0, which is nothing. The totals
\* equal those of the list with the negative quantities set to 0 and those
\* of the list without these entries, for every catalog and whatever the
\* other entries are; 30 units of a food with 25 carbohydrate per 100
\* total 7.5.
C20_NegativeAsZero ==
    pc = "totalled" =>
        /\ totals = computeTotals(zeroed(selected), foodsMap)
        /\ totals = computeTotals(SelectSeq(selected, notNegative), foodsMap)
        /\ \A i \in 1..Len(selected) :
              selected[i].grams < 0 =>
                  \A macro \in {"p", "c", "f", "kcal"} :
                      contribution(selected[i], foodsMap, macro) = 0
        /\ (/\ selected = <<entry("rice", "cooked", 30 * Scale)>>
            /\ has(foodsMap, "rice")
            /\ foodsMap["rice"] = Rice)
           => totals.c = 75000

\* totals of a list in which a resolved entry with a negative quantity and
\* non-zero densities stands next to one that contributes
C20_Witness ==
    /\ pc = "totalled"
    /\ \E i, j \in 1..Len(selected) :
          /\ selected[i].grams < 0
          /\ has(foodsMap, selected[i].foodId)
          /\ getVariant(foodsMap[selected[i].foodId], selected[i].basis).c # 0
          /\ selected[j].grams > 0
    /\ totals.p > 0
    /\ totals.kcal > 0

-----------------------------------------------------------------------------
(* Claim on the variant an entry resolves to, under SpecTotals *)

\* the variants of the food that carry the basis
withBasis(food, basis) ==
    {v \in {food.variants[i] : i \in 1..Len(food.variants)} : v.basis = basis}

\* the densities the claim names for an entry of a food: those of the
\* variant with the entry's basis, else those of the first variant; kcal 0
\* when the variant has none
namedDensity(food, basis, macro) ==
    LET v == IF withBasis(food, basis) # {}
             THEN CHOOSE w \in withBasis(food, basis) : TRUE
             ELSE food.variants[1]
    IN  IF macro = "kcal" THEN (IF v.hasKcal THEN v.kcal ELSE 0) ELSE v[macro]

\* sum over the resolved entries from i on of density x max(0, grams) / 100
RECURSIVE namedSum(_, _, _, _)
namedSum(es, fm, macro, i) ==
    IF i > Len(es) THEN 0
    ELSE (IF es[i].foodId \in DOMAIN fm
          THEN MulBy(namedDensity(fm[es[i].foodId], es[i].basis, macro),
                     Max(0, es[i].grams), 1000)
          ELSE 0)
         + namedSum(es, fm, macro, i + 1)

\* C21: the densities computeTotals uses for an entry are those of the
\* food's variant whose basis equals the entry's basis; when the food has
\* no such variant, those of the food's first variant; a kcal density that
\* is missing counts as 0. Each total is round2 of the sum, over the
\* entries the catalog resolves, of that density x max(0, grams) / 100.
C21_VariantResolution ==
    pc = "totalled" =>
        \A macro \in {"p", "c", "f", "kcal"} :
            totals[macro] = round2(namedSum(selected, foodsMap, macro, 1))

\* totals of a list with an entry on the second variant of its food, one
\* whose basis no variant of its food has, and a variant without kcal
C21_Witness ==
    /\ pc = "totalled"
    /\ foodsMap \in Catalogs
    /\ has(foodsMap, "rice") /\ foodsMap["rice"] = Rice
    /\ selected = <<entry("chicken", "cooked", 5 * Scale),
                    entry("rice", "dried", 40 * Scale),
                    entry("rice", "cooked", 30 * Scale)>>
    /\ totals.c = 375000
    /\ totals.p = 46500

-----------------------------------------------------------------------------
(* Claim on where computeTotals rounds, under SpecTotals *)

\* two entries that contribute 0.004 of fat each: 0.4 units of a food with
\* 1 fat per 100
twoSmall == <<entry("rice", "raw", 4000), entry("rice", "raw", 4000)>>

\* C22: computeTotals rounds once, at the end: each total it returns is a
\* multiple of 0.01 that lies within 0.005 of the exact sum of density x
\* max(0, grams) / 100 over the resolved entries, however many entries
\* there are; it is not the sum of the entries' rounded contributions. Two
\* entries that contribute 0.004 each total 0.01, not 0.
C22_RoundedOnce ==
    pc = "totalled" =>
        /\ \A macro \in {"p", "c", "f", "kcal"} :
              /\ totals[macro] % cent = 0
              /\ Abs(totals[macro] - namedSum(selected, foodsMap, macro, 1))
                    <= halfCent
        /\ (selected = twoSmall /\ has(foodsMap, "rice")
              /\ foodsMap["rice"] = Rice)
           => totals.f = cent

\* the two small entries have been totalled: 0.008 of fat, returned as 0.01
C22_Witness ==
    /\ pc = "totalled"
    /\ selected = twoSmall
    /\ has(foodsMap, "rice")
    /\ foodsMap["rice"] = Rice
    /\ namedSum(selected, foodsMap, "f", 1) = 80
    /\ round2(contribution(selected[1], foodsMap, "f")) = 0
    /\ totals.f = cent

-----------------------------------------------------------------------------
(* Claim on Phase 1 of greedyGenerate, under SpecSolver *)

\* the state assign has left: Phase 1 done, no Phase 2 move applied yet
seeded == pc = "search" /\ iter = 0

\* the category a macro is seeded from
categoryOf(macro) ==
    CASE macro = "p" -> "protein" [] macro = "c" -> "carb" [] OTHER -> "fat"

\* the entries Phase 1 may seed for the macro: resolved, of the macro's
\* category, with a positive density of it
eligible(macro) ==
    {i \in 1..Len(selected) :
        /\ has(foodsMap, selected[i].foodId)
        /\ foodsMap[selected[i].foodId].category = categoryOf(macro)
        /\ getVariant(foodsMap[selected[i].foodId], selected[i].basis)[macro] > 0}

densityOf(i, macro) ==
    getVariant(foodsMap[selected[i].foodId], selected[i].basis)[macro]

\* the entry of highest density among the eligible ones, the first of them
\* in entry order when several share it
highest(macro) ==
    CHOOSE i \in eligible(macro) :
        \A j \in eligible(macro) :
            \/ densityOf(i, macro) > densityOf(j, macro)
            \/ densityOf(i, macro) = densityOf(j, macro) /\ i <= j

\* what Phase 1 added to entry i
seedOf(i) == entries[i].grams - clampedGrams(selected[i])

\* 70% of the macro's target
neededOf(macro) == Mul(target[macro], seedShare)

\* the macro the entries of category protein, carb, fat hold in all
RECURSIVE groupHolds(_, _)
groupHolds(macro, S) ==
    IF S = {} THEN 0
    ELSE LET i == CHOOSE j \in S : TRUE
         IN  MulBy(densityOf(i, macro), entries[i].grams, 1000)
             + groupHolds(macro, S \ {i})

\* C23: Phase 1 of greedyGenerate. For each macro p, c, f with a positive
\* target and at least one entry whose resolved food has the macro's
\* category (protein, carb, fat) and a positive density of it, the entry of
\* highest density (the first in entry order among equals) receives
\* (70% of the target / its density) x 100, which meets the 70% at once;
\* the other entries of the group receive nothing (less than 0.01, the
\* resolution of the returned quantities). Starting from quantities of 0
\* the group then holds 0.7 x target of the macro, not more. Entries of
\* other categories, entries without a positive density, unresolved entries
\* and the groups of a macro whose target is 0 keep their clamped quantity.
C23_Seeding ==
    seeded =>
        /\ Len(entries) = Len(selected)
        /\ \A macro \in {"p", "c", "f"} :
              (target[macro] > 0 /\ eligible(macro) # {}) =>
                  LET top == highest(macro)
                      got1 == MulBy(densityOf(top, macro), seedOf(top), 1000)
                  IN  /\ got1 <= neededOf(macro)
                      /\ got1 > neededOf(macro) - cent
                      /\ \A i \in eligible(macro) \ {top} :
                            seedOf(i) >= 0 /\ seedOf(i) < cent
                      /\ (\A i \in eligible(macro) : clampedGrams(selected[i]) = 0)
                         => /\ groupHolds(macro, eligible(macro)) <= neededOf(macro)
                            /\ groupHolds(macro, eligible(macro))
                                  > neededOf(macro) - cent
        /\ \A i \in 1..Len(selected) :
              (\A macro \in {"p", "c", "f"} :
                    i \notin eligible(macro) \/ target[macro] <= 0)
              => seedOf(i) = 0

\* Phase 1 has seeded two protein entries given in ascending density: the
\* second, denser one took the 28 of protein, the first stayed empty, and
\* an unresolved entry would have kept its quantity
C23_Witness ==
    /\ seeded
    /\ selected = <<entry("chicken", "raw", 0), entry("chicken", "cooked", 5 * Scale)>>
    /\ foodsMap["chicken"] = Chicken
    /\ target.p = 40 * Scale
    /\ highest("p") = 2
    /\ seedOf(2) = 112 * Scale
    /\ seedOf(1) = 0

\* Phase 1 has seeded a protein and a carb entry from 0 and left the
\* entry of another category alone
C23_WitnessTwoGroups ==
    /\ seeded
    /\ selected = <<entry("chicken", "raw", 0), entry("rice", "fresh", 0 - 5 * Scale)>>
    /\ has(foodsMap, "rice")
    /\ foodsMap["rice"] = Rice
    /\ target.c = 50 * Scale
    /\ seedOf(1) = 140 * Scale
    /\ seedOf(2) > 46 * Scale

-----------------------------------------------------------------------------
(* Claim on the end of Phase 2, under SpecSolver *)

\* score of the working quantities
currentScore == score(target, computeTotals(entries, foodsMap))

\* no change of one entry by +5 or -5 that keeps it >= 0 scores lower
localOptimum ==
    \A idx \in 1..Len(entries) :
        \A delta \in {step * Scale, 0 - step * Scale} :
            entries[idx].grams + delta >= 0 =>
                score(target,
                      computeTotals([entries EXCEPT ![idx].grams = @ + delta],
                                    foodsMap)) >= currentScore

\* C24: Phase 2 of greedyGenerate ends after at most 1500 iterations, each
\* of which applies at most one move. When it has stopped, before the
\* output is rounded, the score is below 1, or no single change of one
\* entry by +5 or -5 that keeps its quantity >= 0 lowers the score, or
\* 1500 moves have been applied.
C24_Phase2Stops ==
    /\ [](/\ iter <= maxIterations
          /\ pc = "stopped" =>
                \/ currentScore < Scale
                \/ localOptimum
                \/ iter = maxIterations)
    /\ [][pc = "search" =>
            /\ iter' \in {iter, iter + 1}
            /\ Cardinality({i \in 1..Len(entries) :
                               entries'[i] # entries[i]}) <= 1
            /\ iter' = iter => pc' = "stopped" /\ entries' = entries]_vars

\* Phase 2 has stopped on the bound alone: 1500 moves applied, the score
\* still 1 or more and a further +5 would lower it
C24_Witness ==
    /\ pc = "stopped"
    /\ iter = maxIterations
    /\ currentScore >= Scale
    /\ ~localOptimum

\* Phase 2 has stopped at a local optimum that is not a solution
C24_WitnessLocalOptimum ==
    /\ pc = "stopped"
    /\ iter > 0
    /\ iter < maxIterations
    /\ currentScore >= Scale
    /\ localOptimum

-----------------------------------------------------------------------------
(* Claim on the move of one Phase 2 iteration, under SpecSolver *)

\* the pairs (entry, delta) the double loop tries: those that keep the
\* quantity >= 0
feasible ==
    {m \in (1..Len(entries)) \X {step * Scale, 0 - step * Scale} :
        entries[m[1]].grams + m[2] >= 0}

\* the score the pair would give
scoreAfter(m) ==
    score(target,
          computeTotals([entries EXCEPT ![m[1]].grams = @ + m[2]], foodsMap))

\* the place of the pair in the scan: entry order, +5 before -5
scanPlace(m) == 2 * m[1] - (IF m[2] > 0 THEN 1 ELSE 0)

\* C25: a Phase 2 iteration that applies a move changes the quantity of
\* exactly one entry, by exactly +5 or -5, never taking 5 from a quantity
\* below 5. The pair applied has the lowest score among all pairs (entry,
\* +5 or -5) that keep the quantity >= 0, that score is lower than the
\* current one, and among the pairs that reach it the applied one comes
\* first in scan order (entry order, +5 before -5 on the same entry).
C25_SteepestMove ==
    [][(pc = "search" /\ iter' # iter) =>
          \E m \in feasible :
              /\ entries' = [entries EXCEPT ![m[1]].grams = @ + m[2]]
              /\ entries'[m[1]].grams >= 0
              /\ scoreAfter(m) < currentScore
              /\ \A o \in feasible :
                    /\ scoreAfter(o) >= scoreAfter(m)
                    /\ scoreAfter(o) = scoreAfter(m)
                          => scanPlace(o) >= scanPlace(m)]_vars

\* two equal entries after a first move: either could take the next +5
\* with the same score, and the first one holds every step applied so far
C25_Witness ==
    /\ pc = "search"
    /\ iter > 0
    /\ Len(entries) = 2
    /\ selected[1] = selected[2]
    /\ entries[1].grams > entries[2].grams
    /\ \E m, o \in feasible :
          /\ m[1] = 1 /\ o[1] = 2 /\ m[2] = o[2]
          /\ scoreAfter(m) = scoreAfter(o)
          /\ scoreAfter(m) < currentScore

\* a step of -5 has been applied to an overshooting entry
C25_WitnessDown ==
    /\ pc = "search"
    /\ iter > 0
    /\ \E i \in 1..Len(entries) :
          entries[i].grams < clampedGrams(selected[i])

-----------------------------------------------------------------------------
(* Claim on the score along Phase 2, under SpecSolver *)

\* the score of the quantities Phase 1 hands to Phase 2
seededScore ==
    score(target,
          computeTotals(phase1(clampEntries(selected), foodsMap, target),
                        foodsMap))

\* C26: the score |target.p - totals.p| + |target.c - totals.c| +
\* |target.f - totals.f| is lower after every move Phase 2 applies than
\* before it. So after n moves the score lies at least n x 0.01 below the
\* score of the seeded quantities (scores being sums of multiples of
\* 0.01), the score at which Phase 2 stops is never above the seeded one,
\* and no quantity vector comes twice.
C26_ScoreDecreases ==
    /\ [](pc \in {"search", "stopped"} =>
              currentScore + iter * cent <= seededScore)
    /\ [][(pc = "search" /\ iter' # iter) =>
              score(target, computeTotals(entries', foodsMap))
                  < currentScore]_vars

\* Phase 2 has stopped after several moves, on a score below the seeded one
\* that is still not a solution
C26_Witness ==
    /\ pc = "stopped"
    /\ iter >= 2
    /\ currentScore < seededScore
    /\ currentScore >= Scale

-----------------------------------------------------------------------------
(* Claim on the entries the score does not depend on, under SpecSolver *)

\* the entry at i cannot affect the score: the catalog does not hold its
\* food, or the variant it resolves to has no protein, carbohydrate or fat
inert(i) ==
    \/ selected[i].foodId \notin DOMAIN foodsMap
    \/ LET v == getVariant(foodsMap[selected[i].foodId], selected[i].basis)
       IN  v.p = 0 /\ v.c = 0 /\ v.f = 0

\* the input quantity of the entry at i, clamped to >= 0 (0 for a quantity
\* that is not a number)
inputQuantity(i) ==
    IF selected[i].nan THEN 0
    ELSE IF selected[i].grams < 0 THEN 0 ELSE selected[i].grams

\* C27: greedyGenerate leaves alone every entry that cannot affect the
\* score. An entry whose foodId the catalog does not hold, or whose
\* resolved variant has densities p = c = f = 0, keeps its input quantity
\* clamped to >= 0 through Phase 1 and Phase 2 and is returned with that
\* quantity rounded to 2 decimals, at its place and with its foodId and
\* basis, for every target and whatever the other entries are.
C27_InertUntouched ==
    Running =>
        /\ Len(entries) = Len(selected)
        /\ \A i \in 1..Len(selected) :
              inert(i) =>
                  /\ entries[i].foodId = selected[i].foodId
                  /\ entries[i].basis = selected[i].basis
                  /\ entries[i].grams =
                        IF pc = "done" THEN round2(inputQuantity(i))
                        ELSE inputQuantity(i)

\* the call has returned a list in which Phase 2 moved one entry and the
\* entry beside it, resolved but without densities, kept 7.506 (as 7.51)
C27_Witness ==
    /\ pc = "done"
    /\ iter > 0
    /\ Len(selected) = 2
    /\ \E i \in 1..2 :
          /\ inert(i)
          /\ has(foodsMap, selected[i].foodId)
          /\ selected[i].grams = 75060
          /\ entries[i].grams = 75100
    /\ \E i \in 1..2 : ~inert(i) /\ entries[i].grams # inputQuantity(i)

\* the call has returned a list with an entry the catalog does not hold
C27_WitnessUnresolved ==
    /\ pc = "done"
    /\ iter > 0
    /\ \E i \in 1..Len(selected) :
          /\ ~has(foodsMap, selected[i].foodId)
          /\ selected[i].grams > 0
          /\ entries[i].grams = selected[i].grams

-----------------------------------------------------------------------------
(* Specification of the Plan tab: the three handlers that shape the cycle,
   called in any order with any of the values below *)

\* values typed into the cycle-days field
DaysTyped == {0 - 1, 2, 3, 31}

\* values typed into a count field
CountsTyped == {0, 1, 3}

\* day selects used (those the cycle has)
PlacementsChosen == {0, 29}

InitPlan ==
    /\ pc = "plan"
    /\ profile = defaultProfile
    /\ normalized = <<>>
    /\ errors = validateProfile(defaultProfile)
    /\ cycle = calculateCycle(defaultProfile)
    /\ IdleSolver
    /\ IdleRound
    /\ IdleHost
    /\ IdleStore

CycleDaysTyped ==
    /\ pc = "plan"
    /\ \E nextDays \in DaysTyped : setCycleDays(nextDays)

CountsEntered ==
    /\ pc = "plan"
    /\ \E nHigh \in CountsTyped, nMed \in CountsTyped, nLow \in CountsTyped :
          setCounts(nHigh, nMed, nLow)

PlacementChosen ==
    /\ pc = "plan"
    /\ \E dayIndex \in PlacementsChosen \cap 0..(profile.cycleDays - 1),
          dayType \in DayType :
          setPlacement(dayIndex, dayType)

NextPlan == CycleDaysTyped \/ CountsEntered \/ PlacementChosen

SpecPlan == InitPlan /\ [][NextPlan]_vars

-----------------------------------------------------------------------------
(* Claim on the profile the Plan tab keeps *)

\* C28: from the default profile, after any sequence of setCycleDays(n),
\* setCounts(h, m, l) and setPlacement(i, type) with n an integer, h, m, l
\* integers of 0 or more and 0 <= i < cycleDays, the profile has 1 <=
\* cycleDays <= 30 and a dayPlacement of exactly cycleDays elements, each
\* High, Medium or Low; and right after a setCycleDays the counts sum to
\* cycleDays and the placement has nHigh High, nMed Medium and nLow Low
\* days.
C28_ProfileShape ==
    /\ [](pc = "plan" =>
             /\ profile.cycleDays \in 1..30
             /\ Len(profile.dayPlacement) = profile.cycleDays
             /\ \A i \in 1..Len(profile.dayPlacement) :
                   profile.dayPlacement[i] \in DayType)
    /\ [][CycleDaysTyped =>
             /\ profile'.nHigh + profile'.nMed + profile'.nLow
                   = profile'.cycleDays
             /\ counts(profile'.dayPlacement) = required(profile')]_vars

\* the cycle has been cut to 2 days from counts that exceeded it: they no
\* longer sum to what they were, and the placement was rebuilt
C28_Witness ==
    /\ pc = "plan"
    /\ profile.cycleDays = 2
    /\ profile.nHigh = 2
    /\ profile.nMed = 0
    /\ profile.nLow = 0
    /\ profile.dayPlacement = <<"High", "High">>

\* counts that do not sum to the cycle, next to a placement edited by hand
C28_WitnessLoose ==
    /\ pc = "plan"
    /\ profile.cycleDays = 30
    /\ profile.nHigh + profile.nMed + profile.nLow # 30
    /\ profile.dayPlacement[30] = "High"
    /\ counts(profile.dayPlacement) # required(profile)

-----------------------------------------------------------------------------
(* Specification of the Foods tab: the plans of two days edited with two
   foods, under the default profile *)

\* allFoods of the Foods tab
FoodsShown == [id \in {"chicken", "rice"} |-> IF id = "chicken" THEN Whey ELSE Rice]

InitFoods ==
    /\ pc = "foods"
    /\ profile = defaultProfile
    /\ normalized = <<>>
    /\ errors = validateProfile(defaultProfile)
    /\ cycle = calculateCycle(defaultProfile)
    /\ selected = <<>>
    /\ foodsMap = FoodsShown
    /\ target = NoTarget
    /\ entries = <<>>
    /\ iter = 0
    /\ totals = NoTotals
    /\ IdleRound
    /\ IdleHost
    /\ IdleStore

\* the checkbox of a food
FoodToggled ==
    /\ pc = "foods"
    /\ \E foodId \in DOMAIN foodsMap : toggleFood(foodId)

\* the grams field or the basis select of an entry's row (rows are edited
\* on the days of PlanDays, the other day's plan is toggled and generated)
EntryPatched ==
    /\ pc = "foods"
    /\ selectedDay \in PlanDays
    /\ \E foodId \in DOMAIN foodsMap :
          \/ \E g \in GramsInputs : patchEntry(foodId, [grams |-> g])
          \/ \E k \in 1..Len(foodsMap[foodId].variants) :
                patchEntry(foodId, [basis |-> foodsMap[foodId].variants[k].basis])

NextFoods == SetSelectedDay \/ FoodToggled \/ EntryPatched \/ HandleAutoGenerate

SpecFoods == InitFoods /\ [][NextFoods]_vars

-----------------------------------------------------------------------------
(* Claim on the plans the Foods tab keeps *)

noDuplicates(list) ==
    \A i, j \in 1..Len(list) : list[i].foodId = list[j].foodId => i = j

\* C29: from empty day plans, after any sequence of toggleFood,
\* patchEntry (of basis or grams) and auto-generate on any selected days,
\* no day's list holds two entries with the same foodId. toggleFood of a
\* food the selected day's list holds removes that entry and no other,
\* the rest keeping their order; toggleFood of a food it does not hold
\* appends one entry of that food with quantity 0; the other days' lists
\* stay as they are.
C29_PlanEntriesUnique ==
    /\ [](pc = "foods" => \A d \in DOMAIN dayPlans : noDuplicates(dayPlans[d]))
    /\ [][FoodToggled =>
            /\ \A d \in DOMAIN dayPlans \ {selectedDay} :
                  d \in DOMAIN dayPlans' /\ dayPlans'[d] = dayPlans[d]
            /\ \E foodId \in DOMAIN foodsMap :
                  LET old == currentEntries
                      new == dayPlans'[selectedDay]
                      others(e) == e.foodId # foodId
                  IN  IF \E i \in 1..Len(old) : old[i].foodId = foodId
                      THEN /\ Len(new) = Len(old) - 1
                           /\ new = SelectSeq(old, others)
                      ELSE /\ Len(new) = Len(old) + 1
                           /\ SubSeq(new, 1, Len(old)) = old
                           /\ new[Len(new)].foodId = foodId
                           /\ new[Len(new)].grams = 0]_vars

\* two days with plans: on the first both foods with generated quantities
\* in the order rice, chicken (chicken was removed and added again), on the
\* second one food
C29_Witness ==
    /\ pc = "foods"
    /\ generations > 0
    /\ DOMAIN dayPlans = {1, 2}
    /\ Len(dayPlans[1]) = 2
    /\ dayPlans[1][1].foodId = "rice"
    /\ dayPlans[1][1].grams > 0
    /\ dayPlans[1][2].foodId = "chicken"
    /\ Len(dayPlans[2]) = 1

-----------------------------------------------------------------------------
(* Specification of a render of App: the cycle, then the validation errors,
   of one profile *)

\* the default shares, and fat shares summing to 0.9
RenderedShares ==
    {DEFAULT_FAT_SHARES, [DEFAULT_FAT_SHARES EXCEPT !.Medium = @ - 10000000]}

\* profiles of every count and every placement of DayType up to
\* MaxCount + 1 days
InitRender ==
    /\ pc = "init"
    /\ \E d \in 1..MaxDays, h \in 0..MaxCount, m \in 0..MaxCount,
          l \in 0..MaxCount, pl \in SeqsUpTo(DayType, MaxCount + 1),
          fs \in RenderedShares :
          profile = [defaultProfile EXCEPT !.cycleDays = d, !.nHigh = h,
                        !.nMed = m, !.nLow = l, !.dayPlacement = pl,
                        !.fatShares = fs]
    /\ normalized = <<>>
    /\ errors = <<>>
    /\ cycle = NoCycle
    /\ IdleSolver
    /\ IdleRest

\* const validationErrors = useMemo(() => validateProfile(profile), [profile])
ValidationErrors ==
    /\ pc = "cycled"
    /\ errors' = validateProfile(profile)
    /\ pc' = "rendered"
    /\ UNCHANGED rest
    /\ UNCHANGED <<profile, normalized, cycle, selected, foodsMap, target,
                   entries, iter, totals>>

NextRender == Calculate \/ ValidationErrors

SpecRender == InitRender /\ [][NextRender]_vars

-----------------------------------------------------------------------------
(* Claim on the profiles that pass validation *)

\* C30: when validateProfile(profile) returns the empty list for a
\* profile whose placement holds only High, Medium and Low, the placement
\* has exactly cycleDays elements, calculateCycle yields exactly cycleDays
\* day targets, and every day is of a type whose required count is not 0.
C30_ValidPlacement ==
    (/\ pc = "rendered"
     /\ errors = <<>>
     /\ \A i \in 1..Len(profile.dayPlacement) :
           profile.dayPlacement[i] \in DayType)
    => /\ Len(profile.dayPlacement) = profile.cycleDays
       /\ Len(cycle.dayTargets) = profile.cycleDays
       /\ \A i \in 1..Len(cycle.dayTargets) :
             /\ cycle.dayTargets[i].dayType = profile.dayPlacement[i]
             /\ required(profile)[cycle.dayTargets[i].dayType] > 0

\* a profile that passed with no Low day: two days, both High
C30_Witness ==
    /\ pc = "rendered"
    /\ errors = <<>>
    /\ profile.cycleDays = 2
    /\ profile.nLow = 0
    /\ profile.nMed = 0
    /\ Len(cycle.dayTargets) = 2

\* a placement longer than cycleDays, with counts that sum to cycleDays:
\* rejected for its placement alone
C30_WitnessRejected ==
    /\ pc = "rendered"
    /\ errors = <<placementError>>
    /\ Len(profile.dayPlacement) > profile.cycleDays
====
